---- MODULE Spec2Model ----
(***************************************************************************)
(* finalstore: the subscription / notification core of the value store     *)
(* (packages/store/src/store.tsx, createStore) and of the keyed collection *)
(* (createCollection).                                                     *)
(*                                                                         *)
(* JavaScript objects are modelled with a heap: a nested object is a       *)
(* reference into `heap`, so that the shallow copies the engines make      *)
(* ({ ...states }, new Map(initialMap)) share their nested objects exactly *)
(* as they do at run time.  A top-level record is a TLA+ record whose      *)
(* object-valued fields hold references.                                   *)
(*                                                                         *)
(* Specifications:                                                         *)
(*   StoreSpec       one value store                                       *)
(*   CollectionSpec  one collection, two keys, all actions plain functions *)
(*   AsyncSpec       one collection operated on one key, with an async     *)
(*                   function among its actions and the engine's dispatch  *)
(*                   function called directly as well                      *)
(*   NestedSpec      one collection, two keys, with an action that writes  *)
(*                   into a nested object of its draft                     *)
(*   OverlapSpec     one value store and one collection key on which a     *)
(*                   plain action is dispatched while an async action is   *)
(*                   pending                                               *)
(*   UnsubSpec       one value store and one collection key whose          *)
(*                   observers come and go                                 *)
(*   FacadeSpec      one collection key dispatched to through key(id) and  *)
(*                   through the engine's dispatch function                *)
(*   FrameSpec       one collection, two keys, operated on key by key      *)
(*   ReadSpec        one value store and one collection read between       *)
(*                   writes                                                *)
(*   DeepEqSpec      isDeepEqual applied to pairs of cycle-free values     *)
(*   PendingSpec     one value store with an async action that writes a    *)
(*                   nested field before its await                         *)
(*   RegisterSpec    one value store whose observers register while an     *)
(*                   async dispatch is pending                             *)
(*   LiveSpec        one value store whose async action always resolves,   *)
(*                   with the fairness of the event loop                   *)
(*   SymSpec         isDeepEqual applied to pairs of values whose objects  *)
(*                   record their key order                                *)
(*   NaNSpec         isDeepEqual on primitives and a value store observed  *)
(*                   through a selector whose value can be NaN             *)
(*   DevSpec         one value store connected to the devtools extension   *)
(*   PassSpec        one value store whose notification passes run step by *)
(*                   step, with callbacks that call back into the store    *)
(* `calls` and `lastOp` record what the latest operation did to its        *)
(* observers and to its caller; nothing in the engines reads them.         *)
(***************************************************************************)
EXTENDS Integers, Sequences, FiniteSets, Bags, TLC

\* ------------------------------------------------------------------ bounds
MaxVal == 1
MaxSubs == 1
MaxPending == 1
\* longest array among the values handed to isDeepEqual
MaxLen == 1
MaxDepth == 2

Vals == 0..MaxVal
\* the nested objects of the construction inputs and of the records callers pass
Refs == {1, 2}
SubIds == 0..(MaxSubs - 1)

VARIABLES
  heap,              \* nested objects: Refs -> [isOpen : BOOLEAN]
  states,            \* value store: `let states`
  initialStates,     \* value store: `const initialStates`
  subscribers,       \* value store: Map id -> {selector, callback, lastValue}
  nextSubscriberId,  \* value store: `let nextSubscriberId`
  pending,           \* value store: bag of dispatch calls suspended at `await result`
  passes,            \* value store: the notify() calls that have not returned yet
  collActions,       \* collection: `const actions = props.actions` (its keys)
  initialMap,        \* collection: `const initialMap`
  collStates,        \* collection: `let states`, a Map in insertion order
  collSubscribers,   \* collection: `const subscribers` {byKey, size, keys}
  collNextId,        \* collection: `let nextSubscriberId`
  collPending,       \* collection: bag of dispatch calls suspended at `await result`
  calls,             \* observer callbacks invoked by the latest operation, in order
  devTools,          \* `let devTools`: "null", or "connected" to the extension
  pauseDevTools,     \* `let pauseDevTools`
  sent,              \* devTools.send(action, state) calls of the latest operation
  lastOp             \* the latest operation, how it ended for its caller:
                     \* "ok" returned / resolved, "error" threw / rejected,
                     \* "pending" returned a promise that is not settled yet,
                     \* and the value it returned / resolved to

storeVars == <<states, initialStates, subscribers, nextSubscriberId, pending, passes>>
collVars == <<collActions, initialMap, collStates, collSubscribers, collNextId,
              collPending>>
devVars == <<devTools, pauseDevTools, sent>>
vars == <<heap, storeVars, collVars, devVars, calls, lastOp>>

\* no notify() call is running.  `frames` holds, innermost last, the rest
\* of the `subs` array of every notify() call that has not returned;
\* `detached` holds the subscriber objects that are in such an array and no
\* longer in the Map; `seen` records the value each callback was last invoked
\* with by a pass run step by step (nothing in the engine reads it).
Idle == [frames |-> <<>>, detached |-> <<>>, seen |-> <<>>]

\* no devtools: config.devtools is not set (or there is no extension), so
\* devTools stays null
NoDevTools ==
  /\ devTools = "null"
  /\ pauseDevTools = FALSE
  /\ sent = <<>>

\* if (devTools && !pauseDevTools) devTools.send({ type, ... }, state)
\* `key` is "" where the action names no key
SendToDevTools(type, key, state) ==
  /\ sent' = IF devTools # "null" /\ ~pauseDevTools
               THEN <<[type |-> type, key |-> key, state |-> state]>>
               ELSE <<>>
  /\ UNCHANGED <<devTools, pauseDevTools>>

\* an operation that has no devTools.send in it
NoSend ==
  /\ sent' = <<>>
  /\ UNCHANGED <<devTools, pauseDevTools>>

\* ------------------------------------------------------------ JS values
Undefined == [t |-> "undefined"]
Null == [t |-> "null"]
Num(n) == [t |-> "number", n |-> n]
NaN == [t |-> "number", nan |-> TRUE]
Bool(b) == [t |-> "boolean", b |-> b]
Str(x) == [t |-> "string", s |-> x]
Arr(s) == [t |-> "array", elems |-> s]
Obj(f) == [t |-> "object", fields |-> f]
\* a plain object whose keys were inserted in the order `order`
OrderedObj(order, f) == [t |-> "object", fields |-> f, order |-> order]
\* handles held by the engines: a nested object, a top-level record
RefTo(r) == [t |-> "ref", r |-> r]
RecOf(rec) == [t |-> "rec", rec |-> rec]
EntryOf(rec) == [t |-> "entry", rec |-> rec]

\* typeof
TypeOf(a) ==
  CASE a.t = "undefined" -> "undefined"
    [] a.t = "number" -> "number"
    [] a.t = "boolean" -> "boolean"
    [] a.t = "string" -> "string"
    [] OTHER -> "object"

\* a == null
IsNullish(a) == a.t \in {"undefined", "null"}

\* Object.is on two primitives of the same typeof
\* a comparison of two primitives of one type by `===`: NaN is not equal to
\* itself
TripleEquals(a, b) == a = b /\ a # NaN

ObjectIs(a, b) == a = b

\* Object.keys(o): the keys of o in insertion order; for an object whose
\* insertion order is not recorded, in some order
ObjectKeys(o) ==
  IF "order" \in DOMAIN o THEN o.order
  ELSE CHOOSE s \in [1..Cardinality(DOMAIN o.fields) -> DOMAIN o.fields] :
         \A i, j \in DOMAIN s : s[i] = s[j] => i = j

\* Object.prototype.hasOwnProperty.call(o, key)
HasOwnProperty(o, key) == key \in DOMAIN o.fields

\* `a === b` on two primitives (null included): the same value, and not NaN
StrictEquals(a, b) == a = b /\ a # NaN

\* a comparison that descends into neither arrays nor objects: two containers
\* are equal if they are of the same kind with the same length or keys and
\* their elements are `===`, which two distinct containers never are
isShallowEqual(a, b) ==
  IF (TypeOf(a) # "object" \/ a = Null) /\ StrictEquals(a, b) THEN TRUE
  ELSE IF IsNullish(a) \/ IsNullish(b) THEN FALSE
  ELSE IF TypeOf(a) # TypeOf(b) THEN FALSE
  ELSE IF TypeOf(a) # "object" THEN ObjectIs(a, b)
  ELSE IF a.t = "array"
    THEN IF b.t # "array" \/ Len(a.elems) # Len(b.elems) THEN FALSE
         ELSE \A i \in 1..Len(a.elems) :
                /\ TypeOf(a.elems[i]) # "object" \/ a.elems[i] = Null
                /\ StrictEquals(a.elems[i], b.elems[i])
  ELSE IF b.t = "array" THEN FALSE
  ELSE /\ DOMAIN a.fields = DOMAIN b.fields
       /\ \A key \in DOMAIN a.fields :
            /\ TypeOf(a.fields[key]) # "object" \/ a.fields[key] = Null
            /\ StrictEquals(a.fields[key], b.fields[key])

\* isDeepEqual on two values that are not one and the same object.
\* `a === b` (line 132) is identity for objects; two handles to one object
\* reach the same graph, so for objects the structural rules below give the
\* answer identity gives and only primitives take the shortcut here.
RECURSIVE isDeepEqual(_, _)

\* a comparison that wants the keys of two objects in the same order
isKeyOrderEqual(a, b) ==
  IF (TypeOf(a) # "object" \/ a = Null) /\ StrictEquals(a, b) THEN TRUE
  ELSE IF IsNullish(a) \/ IsNullish(b) THEN FALSE
  ELSE IF TypeOf(a) # TypeOf(b) THEN FALSE
  ELSE IF TypeOf(a) # "object" THEN ObjectIs(a, b)
  ELSE IF a.t = "array"
    THEN IF b.t # "array" \/ Len(a.elems) # Len(b.elems) THEN FALSE
         ELSE \A i \in 1..Len(a.elems) : isDeepEqual(a.elems[i], b.elems[i])
  ELSE IF b.t = "array" THEN FALSE
  ELSE IF Len(ObjectKeys(a)) # Len(ObjectKeys(b)) THEN FALSE
  ELSE \A i \in 1..Len(ObjectKeys(a)) :
         /\ ObjectKeys(a)[i] = ObjectKeys(b)[i]
         /\ isDeepEqual(a.fields[ObjectKeys(a)[i]], b.fields[ObjectKeys(a)[i]])

isDeepEqual(a, b) ==
  IF (TypeOf(a) # "object" \/ a = Null) /\ StrictEquals(a, b) THEN TRUE
  ELSE IF IsNullish(a) \/ IsNullish(b) THEN FALSE
  ELSE IF TypeOf(a) # TypeOf(b) THEN FALSE
  ELSE IF TypeOf(a) # "object" THEN ObjectIs(a, b)
  ELSE IF a.t = "array"
    THEN IF b.t # "array" \/ Len(a.elems) # Len(b.elems) THEN FALSE
         ELSE \A i \in 1..Len(a.elems) : isDeepEqual(a.elems[i], b.elems[i])
  ELSE IF b.t = "array" THEN FALSE
  ELSE LET keys == ObjectKeys(a)
       IN IF Len(keys) # Len(ObjectKeys(b)) THEN FALSE
          ELSE \A i \in 1..Len(keys) :
                 /\ HasOwnProperty(b, keys[i])
                 /\ isDeepEqual(a.fields[keys[i]], b.fields[keys[i]])

\* The object graph below a handle, as the engine would read it in heap h.
Deref(h, v) ==
  CASE v.t = "ref" -> Obj([isOpen |-> Bool(h[v.r].isOpen)])
    [] v.t = "rec" -> Obj([k \in DOMAIN v.rec |->
                             IF k = "count" THEN Num(v.rec.count)
                             ELSE Obj([isOpen |-> Bool(h[v.rec.sidebar].isOpen)])])
    [] v.t = "entry" -> Obj([active |-> Bool(v.rec.active),
                             sidebar |-> Obj([isOpen |-> Bool(h[v.rec.sidebar].isOpen)])])
    [] OTHER -> v

\* isDeepEqual as the engines call it, on two handles of the same heap
DeepEq(h, a, b) == isDeepEqual(Deref(h, a), Deref(h, b))

\* Set of naturals as the ascending sequence (Map iteration order: ids are
\* issued in increasing order and never re-inserted).
RECURSIVE SortedSeq(_)
SortedSeq(S) ==
  IF S = {} THEN <<>>
  ELSE LET m == CHOOSE x \in S : \A y \in S : x <= y
       IN <<m>> \o SortedSeq(S \ {m})

Count(seq, x) == Cardinality({i \in 1..Len(seq) : seq[i] = x})

\* an operation that ended with `outcome` and handed `result` to its caller
\* (for a promise: the value it resolved to)
Returned(op, outcome, result) == [op |-> op, outcome |-> outcome, result |-> result]

\* an operation that handed undefined to its caller
Op(op, outcome) == Returned(op, outcome, Undefined)

\* operation record o is of `op` and ended with `outcome`
Ended(o, op, outcome) == o.op = op /\ o.outcome = outcome

\* the name a dispatch goes by: dispatch, or with shouldNotify = false the
\* silent dispatch
DispatchOp(shouldNotify) == IF shouldNotify THEN "dispatch" ELSE "silentDispatch"

\* ------------------------------------------------- value store: inputs
\* props.states as passed to createStore: { count: 0, sidebar: { isOpen: true } },
\* the nested object living at reference 1.
PropsStates == [count |-> 0, sidebar |-> 1]
PropsHeap == [r \in Refs |-> [isOpen |-> TRUE]]

\* props.actions: the registered action names
Actions ==
  {"increment", "setCount", "toggleSidebar", "fetchCount", "failCount", "failSidebar",
   "logVisit", "saveSidebar"}
\* the actions whose body reads its payload
TakesPayload == {"setCount"}
\* the names StoreSpec dispatches: registered ones, and one that is not a key
\* of props.actions
ActionNames == (Actions \ {"logVisit", "saveSidebar"}) \cup {"missing"}

\* selectors handed to subscribe (undefined selector = identity)
StoreSelectors == {"identity", "count", "sidebar"}
\* and one whose value is NaN while count is 0: s => 0 / s.count

Select(sel, st, h) ==
  CASE sel = "identity" -> RecOf(st)
    [] sel = "count" -> IF "count" \in DOMAIN st THEN Num(st.count) ELSE Undefined
    [] sel = "sidebar" -> IF "sidebar" \in DOMAIN st THEN RefTo(st.sidebar) ELSE Undefined
    [] sel = "ratio" -> IF "count" \notin DOMAIN st \/ st.count = 0 THEN NaN ELSE Num(0)

\* The synchronous part of an action body run on (draft, payload): what it
\* leaves in the draft and in the heap, how it ends, and the value it returns.
\*   increment        s => { s.count++ }
\*   setCount         (s, n) => { s.count = n; return s.count }
\*   toggleSidebar    s => { s.sidebar.isOpen = !s.sidebar.isOpen }
\*   fetchCount       async s => { s.count = await p; return s.count }
\*   failCount        s => { s.count++; throw e }
\*   failSidebar      s => { s.sidebar.isOpen = !s.sidebar.isOpen; throw e }
\*   logVisit         async s => { await api.log() }
\*   saveSidebar      async s => { s.sidebar.isOpen = !s.sidebar.isOpen;
\*                                 s.count = await api.save() }
ActionBody(type, draft, h, payload) ==
  CASE type = "increment" ->
         [draft |-> [draft EXCEPT !.count = @ + 1], heap |-> h, out |-> "return", ret |-> Undefined]
    [] type = "setCount" ->
         [draft |-> [k \in DOMAIN draft \cup {"count"} |->
                       IF k = "count" THEN payload ELSE draft[k]],
          heap |-> h, out |-> "return", ret |-> Num(payload)]
    [] type = "toggleSidebar" ->
         [draft |-> draft,
          heap |-> [h EXCEPT ![draft.sidebar].isOpen = ~@],
          out |-> "return", ret |-> Undefined]
    [] type \in {"fetchCount", "logVisit"} ->
         [draft |-> draft, heap |-> h, out |-> "promise", ret |-> Undefined]
    [] type = "saveSidebar" ->
         [draft |-> draft,
          heap |-> [h EXCEPT ![draft.sidebar].isOpen = ~@],
          out |-> "promise", ret |-> Undefined]
    [] type = "failCount" ->
         [draft |-> [draft EXCEPT !.count = @ + 1], heap |-> h, out |-> "throw", ret |-> Undefined]
    [] type = "failSidebar" ->
         [draft |-> draft,
          heap |-> [h EXCEPT ![draft.sidebar].isOpen = ~@],
          out |-> "throw", ret |-> Undefined]

\* The part of an asynchronous action body that runs once its promise has
\* resolved with value v.
ActionResume(type, draft, v) ==
  CASE type \in {"fetchCount", "saveSidebar"} -> [draft EXCEPT !.count = v]
    [] OTHER -> draft

\* The value the promise of an asynchronous action body resolves to, its
\* awaited promise having resolved with v.
ActionResult(type, draft, v) ==
  CASE type = "fetchCount" -> Num(v)
    [] OTHER -> Undefined

\* ------------------------------------------------ value store: engine
getState == states

get == getState
getSelected(sel) == Select(sel, getState, heap)

\* a notification pass that compares nothing and invokes every callback
NotifyEvery(subs, st, h) ==
  [subs |-> [id \in DOMAIN subs |->
               [subs[id] EXCEPT !.lastValue = Select(subs[id].selector, st, h)]],
   calls |-> SortedSeq(DOMAIN subs)]

\* notify(): every subscriber whose selector value on st is not deep-equal to
\* its lastValue gets lastValue replaced and its callback invoked.
Notify(subs, st, h) ==
  LET changed == {id \in DOMAIN subs :
                    ~DeepEq(h, Select(subs[id].selector, st, h), subs[id].lastValue)}
  IN [subs |-> [id \in DOMAIN subs |->
                  IF id \in changed
                    THEN [subs[id] EXCEPT !.lastValue = Select(subs[id].selector, st, h)]
                    ELSE subs[id]],
      calls |-> SortedSeq(changed)]

\* states = newState; if (shouldNotify) notify()
\* a dispatch tail that runs its notification pass first and assigns
\* `states` afterwards
NotifyThenCommit(newState, h, shouldNotify) ==
  LET n == Notify(subscribers, states, h)
  IN /\ states' = newState
     /\ heap' = h
     /\ subscribers' = IF shouldNotify THEN n.subs ELSE subscribers
     /\ calls' = IF shouldNotify THEN n.calls ELSE <<>>

Commit(newState, h, shouldNotify) ==
  LET n == Notify(subscribers, newState, h)
  IN /\ states' = newState
     /\ heap' = h
     /\ subscribers' = IF shouldNotify THEN n.subs ELSE subscribers
     /\ calls' = IF shouldNotify THEN n.calls ELSE <<>>

\* a registration that caches nothing: lastValue stays undefined until the
\* first notification pass
SubscribeLazily(sel) ==
  /\ nextSubscriberId' = nextSubscriberId + 1
  /\ subscribers' =
       [id \in DOMAIN subscribers \cup {nextSubscriberId} |->
          IF id = nextSubscriberId
            THEN [selector |-> sel, lastValue |-> Undefined]
            ELSE subscribers[id]]
  /\ calls' = <<>> /\ NoSend
  /\ lastOp' = Op("subscribe", "ok")
  /\ UNCHANGED <<heap, states, initialStates, pending, collVars, passes>>

Subscribe(sel) ==
  /\ nextSubscriberId' = nextSubscriberId + 1
  /\ subscribers' =
       [id \in DOMAIN subscribers \cup {nextSubscriberId} |->
          IF id = nextSubscriberId
            THEN [selector |-> sel, lastValue |-> Select(sel, getState, heap)]
            ELSE subscribers[id]]
  /\ calls' = <<>> /\ NoSend
  /\ lastOp' = Op("subscribe", "ok")
  /\ UNCHANGED <<heap, states, initialStates, pending, collVars, passes>>

\* the function subscribe returned for `id`, called (again or for the first time)
Unsubscribe(id) ==
  /\ id < nextSubscriberId
  /\ subscribers' = [i \in DOMAIN subscribers \ {id} |-> subscribers[i]]
  /\ calls' = <<>> /\ NoSend
  /\ lastOp' = Op("unsubscribe", "ok")
  /\ UNCHANGED <<heap, states, initialStates, nextSubscriberId, pending, collVars, passes>>

Dispatch(type, payload, shouldNotify) ==
  IF type \notin Actions
    THEN \* typeof cb !== 'function': return
         /\ calls' = <<>> /\ NoSend
         /\ payload = 0
         /\ lastOp' = Op(DispatchOp(shouldNotify), "ok")
         /\ UNCHANGED <<heap, states, initialStates, subscribers,
                        nextSubscriberId, pending, collVars, passes>>
    ELSE
      /\ type = "increment" => states.count < MaxVal
      /\ type \notin TakesPayload => payload = 0
      /\ LET newState == states
             r == ActionBody(type, newState, heap, payload)
         IN CASE r.out = "throw" ->
                   /\ heap' = r.heap
                   /\ calls' = <<>> /\ NoSend
                   /\ lastOp' = Op(DispatchOp(shouldNotify), "error")
                   /\ UNCHANGED <<states, subscribers, pending>>
              [] r.out = "promise" ->
                   /\ BagCardinality(pending) < MaxPending
                   /\ heap' = r.heap
                   /\ pending' = pending (+) SetToBag(
                        {[type |-> type, draft |-> r.draft, shouldNotify |-> shouldNotify]})
                   /\ calls' = <<>> /\ NoSend
                   /\ lastOp' = Op(DispatchOp(shouldNotify), "pending")
                   /\ UNCHANGED <<states, subscribers>>
              [] r.out = "return" ->
                   /\ Commit(r.draft, r.heap, shouldNotify)
                   /\ SendToDevTools(type, "", r.draft)
                   /\ lastOp' = Op(DispatchOp(shouldNotify), "ok")
                   /\ UNCHANGED pending
      /\ UNCHANGED <<initialStates, nextSubscriberId, collVars, passes>>

\* a resolution that commits the action's writes on top of the state current
\* at the time of the commit
ResolveOnCurrent(p, v) ==
  /\ BagIn(p, pending)
  /\ Commit(ActionResume(p.type, states, v), heap, p.shouldNotify)
  /\ SendToDevTools(p.type, "", ActionResume(p.type, states, v))
  /\ lastOp' = Op("resolve", "ok")
  /\ pending' = pending (-) SetToBag({p})
  /\ UNCHANGED <<initialStates, nextSubscriberId, collVars, passes>>

\* a resolution after which the suspended dispatch is dropped: nothing is
\* committed and nobody is notified
ResolveAndDrop(p, v) ==
  /\ BagIn(p, pending)
  /\ lastOp' = Op("resolve", "dropped")
  /\ pending' = pending (-) SetToBag({p})
  /\ calls' = <<>> /\ NoSend
  /\ UNCHANGED <<heap, states, initialStates, subscribers, nextSubscriberId, collVars, passes>>

\* the promise awaited by the suspended dispatch p resolves with v
Resolve(p, v) ==
  /\ BagIn(p, pending)
  /\ Commit(ActionResume(p.type, p.draft, v), heap, p.shouldNotify)
  /\ SendToDevTools(p.type, "", ActionResume(p.type, p.draft, v))
  /\ lastOp' = Op("resolve", "ok")
  /\ pending' = pending (-) SetToBag({p})
  /\ UNCHANGED <<initialStates, nextSubscriberId, collVars, passes>>

\* the promise awaited by the suspended dispatch p rejects: `await result` throws
Reject(p) ==
  /\ BagIn(p, pending)
  /\ lastOp' = Op("reject", "error")
  /\ pending' = pending (-) SetToBag({p})
  /\ calls' = <<>> /\ NoSend
  /\ UNCHANGED <<heap, states, initialStates, subscribers, nextSubscriberId, collVars, passes>>

\* a reset that runs its notification pass without comparing the states
ResetAndNotify ==
  LET next == initialStates
      n == Notify(subscribers, next, heap)
  IN /\ states' = next
     /\ subscribers' = n.subs
     /\ calls' = SortedSeq(DOMAIN subscribers)
     /\ SendToDevTools("RESET", "", next)
     /\ lastOp' = Op("reset", "ok")
     /\ UNCHANGED <<heap, initialStates, nextSubscriberId, pending, collVars, passes>>

\* function reset()
reset ==
  LET prevStates == states
      next == initialStates
      n == Notify(subscribers, next, heap)
      differs == ~DeepEq(heap, RecOf(prevStates), RecOf(next))
  IN /\ states' = next
     /\ subscribers' = IF differs THEN n.subs ELSE subscribers
     /\ calls' = IF differs THEN n.calls ELSE <<>>
     /\ SendToDevTools("RESET", "", next)
     /\ UNCHANGED <<heap, initialStates, nextSubscriberId, pending, collVars, passes>>

\* store.reset() called by the application
Reset ==
  /\ reset
  /\ lastOp' = Op("reset", "ok")

\* `states` of a second store created from the same props (the store of another
\* Provider of one scoped store): { ...props.states }.  Nothing is ever
\* dispatched on it, so its record stays the copy made at its construction;
\* its nested objects are those of props.states, in `heap`.
otherStates == PropsStates

\* get() on the second store
otherGet == otherStates

\* the collection is not constructed
NoCollection ==
  /\ collActions = {}
  /\ initialMap = <<>>
  /\ collStates = <<>>
  /\ collSubscribers = [byKey |-> <<>>, size |-> <<>>, keys |-> <<>>]
  /\ collNextId = 0
  /\ collPending = EmptyBag

StoreInit ==
  /\ NoCollection
  /\ heap = PropsHeap
  /\ NoDevTools
  /\ passes = Idle
  /\ initialStates = PropsStates
  /\ states = PropsStates
  /\ subscribers = <<>>
  /\ nextSubscriberId = 0
  /\ pending = EmptyBag
  /\ calls = <<>>
  /\ lastOp = Op("create", "ok")

StoreNext ==
  \/ \E sel \in StoreSelectors : nextSubscriberId < MaxSubs /\ Subscribe(sel)
  \/ \E id \in SubIds : Unsubscribe(id)
  \/ \E type \in ActionNames, payload \in Vals, n \in BOOLEAN : Dispatch(type, payload, n)
  \/ \E p \in BagToSet(pending), v \in Vals : Resolve(p, v)
  \/ \E p \in BagToSet(pending) : Reject(p)
  \/ Reset

StoreSpec == StoreInit /\ [][StoreNext]_vars

\* ---------------------------------------------------- collection: inputs
Keys == {"a", "b"}

\* the nested object of the record a caller keeps for `key`
SidebarOf(key) == IF key = "a" THEN 1 ELSE 2

\* the records callers hand to createCollection and to set()
Entry(key, active) == [active |-> active, sidebar |-> SidebarOf(key)]

\* props.actions of a collection whose actions are all plain functions
SyncActions == {"setActive", "toggleActive", "saveActive", "failActive"}

\* props.actions of a collection with an async function among its actions
AsyncActions == {"setActive", "fetchActive", "failActive"}

\* props.actions of a collection with an action that writes a nested object
NestedActions == {"setActive", "toggleSidebar"}

\* props.actions of a collection with a plain action, a plain action that
\* returns a promise, and an async function
FacadeActions == {"toggleActive", "saveActive", "fetchActive"}

\* props.actions of a collection with an async action that writes no field
OverlapActions == {"toggleActive", "logVisit"}

CollTakesPayload == {"setActive", "saveActive", "failActive"}

\* cb.constructor.name === 'AsyncFunction'
IsAsyncFunction(type) == type \in {"fetchActive", "logVisit"}

\*   setActive:     (s, v) => { s.active = v }
\*   toggleActive:  (s) => { s.active = !s.active; return s.active }
\*   fetchActive:   async (s) => { const v = await api.load(); s.active = v; return v }
\*   saveActive:    (s, v) => { s.active = v; return api.save(v) }
\*   failActive:    (s, v) => { s.active = v; throw new Error() }
\*   toggleSidebar: (s) => { s.sidebar.isOpen = !s.sidebar.isOpen }
\*   logVisit:      async (s) => { await api.log() }
CollActionBody(type, draft, h, payload) ==
  CASE type = "setActive" ->
         [draft |-> [draft EXCEPT !.active = payload], heap |-> h, out |-> "return", ret |-> Undefined]
    [] type = "toggleActive" ->
         [draft |-> [draft EXCEPT !.active = ~@], heap |-> h, out |-> "return",
          ret |-> Bool(~draft.active)]
    [] type \in {"fetchActive", "logVisit"} ->
         [draft |-> draft, heap |-> h, out |-> "promise", ret |-> Undefined]
    [] type = "saveActive" ->
         [draft |-> [draft EXCEPT !.active = payload], heap |-> h, out |-> "promise", ret |-> Undefined]
    [] type = "failActive" ->
         [draft |-> [draft EXCEPT !.active = payload], heap |-> h, out |-> "throw", ret |-> Undefined]
    [] type = "toggleSidebar" ->
         [draft |-> draft,
          heap |-> [h EXCEPT ![draft.sidebar].isOpen = ~@],
          out |-> "return", ret |-> Undefined]

\* what the action writes to its draft after its awaited promise resolved with v
CollActionResume(type, draft, v) ==
  CASE type = "fetchActive" -> [draft EXCEPT !.active = v]
    [] OTHER -> draft

\* the value the promise the action returned resolves to, its awaited promise
\* having resolved with v
CollActionResult(type, draft, v) ==
  CASE type = "fetchActive" -> Bool(v)
    [] OTHER -> Undefined

CollSelectors == {"identity", "active"}

CollSelect(sel, rec) ==
  CASE sel = "identity" -> EntryOf(rec)
    [] sel = "active" -> Bool(rec.active)

\* ----------------------------------------------------- collection: Map
\* A Map<string, States> is the sequence of its entries in insertion order.
MapKeys(m) == [i \in 1..Len(m) |-> m[i].k]
MapHas(m, key) == \E i \in 1..Len(m) : m[i].k = key
MapGet(m, key) == m[CHOOSE i \in 1..Len(m) : m[i].k = key].v
\* a set that always puts the entry last, wherever the key was
MapSetLast(m, key, v) ==
  Append(SelectSeq(m, LAMBDA e : e.k # key), [k |-> key, v |-> v])

MapSet(m, key, v) ==
  IF MapHas(m, key)
    THEN [i \in 1..Len(m) |-> IF m[i].k = key THEN [k |-> key, v |-> v] ELSE m[i]]
    ELSE Append(m, [k |-> key, v |-> v])
MapDelete(m, key) == SelectSeq(m, LAMBDA e : e.k # key)
MapSize(m) == Len(m)

\* Array.from(states.keys())
KeysValue(m) == Arr([i \in 1..Len(m) |-> Str(m[i].k)])

\* ------------------------------------------------- collection: engine
collGet(key) == IF MapHas(collStates, key) THEN EntryOf(MapGet(collStates, key)) ELSE Undefined
getSize == MapSize(collStates)
getKeys == MapKeys(collStates)

\* the ids of the observers registered on `key`
KeyObservers(key) ==
  IF key \in DOMAIN collSubscribers.byKey THEN DOMAIN collSubscribers.byKey[key] ELSE {}

\* props.selectors: the registered selector names; the second one is spelled
\* like a key of the collection
\*   isActive: (s) => s.active
\*   b:        (s, v) => s.active === v
CollSelectorNames == {"isActive", "b"}

\* props.selectors[name](state, payload)
NamedSelector(name, rec, payload) ==
  CASE name = "isActive" -> Bool(rec.active)
    [] name = "b" -> Bool(rec.active = payload)

\* key(id).getSelector[name](payload): the function createSelectorMethods(false)
\* builds under `name`; it looks its state up with get(name)
getSelector(id, name, payload) ==
  LET state == collGet(name)
  IN IF state = Undefined THEN Undefined
     ELSE NamedSelector(name, state.rec, payload)

\* every live subscription id
CollSubIds(subs) ==
  UNION {DOMAIN subs.byKey[k] : k \in DOMAIN subs.byKey}
    \cup DOMAIN subs.size \cup DOMAIN subs.keys

\* notifyKeySubscribers(key)
NotifyKeySubscribers(subs, m, h, key) ==
  IF key \notin DOMAIN subs.byKey THEN [subs |-> subs, calls |-> <<>>]
  ELSE IF ~MapHas(m, key) THEN [subs |-> subs, calls |-> <<>>]
  ELSE
    LET keySubscribers == subs.byKey[key]
        state == MapGet(m, key)
        changed == {id \in DOMAIN keySubscribers :
                      ~DeepEq(h, CollSelect(keySubscribers[id].selector, state),
                              keySubscribers[id].lastValue)}
    IN [subs |-> [subs EXCEPT !.byKey[key] =
                    [id \in DOMAIN keySubscribers |->
                       IF id \in changed
                         THEN [keySubscribers[id] EXCEPT
                                 !.lastValue = CollSelect(keySubscribers[id].selector, state)]
                         ELSE keySubscribers[id]]],
        calls |-> SortedSeq(changed)]

\* notifyAllKeySubscribers(): every callback of every bucket, unconditionally
NotifyAllKeySubscribers(subs) ==
  [subs |-> subs,
   calls |-> SortedSeq(UNION {DOMAIN subs.byKey[k] : k \in DOMAIN subs.byKey})]

\* notifySizeSubscribers()
NotifySizeSubscribers(subs, m) ==
  LET changed == {id \in DOMAIN subs.size : Num(MapSize(m)) # subs.size[id].lastValue}
  IN [subs |-> [subs EXCEPT !.size =
                  [id \in DOMAIN subs.size |->
                     IF id \in changed THEN [lastValue |-> Num(MapSize(m))]
                                       ELSE subs.size[id]]],
      calls |-> SortedSeq(changed)]

\* notifyKeysSubscribers()
NotifyKeysSubscribers(subs, m) ==
  LET changed == {id \in DOMAIN subs.keys :
                    ~isDeepEqual(KeysValue(m), subs.keys[id].lastValue)}
  IN [subs |-> [subs EXCEPT !.keys =
                  [id \in DOMAIN subs.keys |->
                     IF id \in changed THEN [lastValue |-> KeysValue(m)]
                                       ELSE subs.keys[id]]],
      calls |-> SortedSeq(changed)]

\* notifySizeSubscribers(); notifyKeysSubscribers()
NotifyMembership(r, m) ==
  LET s == NotifySizeSubscribers(r.subs, m)
      k == NotifyKeysSubscribers(s.subs, m)
  IN [subs |-> k.subs, calls |-> r.calls \o s.calls \o k.calls]

\* states.set(key, newState); if (shouldNotify) notifyKeySubscribers(key)
CollCommit(key, newState, h, shouldNotify) ==
  LET m == MapSet(collStates, key, newState)
      n == NotifyKeySubscribers(collSubscribers, m, h, key)
  IN /\ collStates' = m
     /\ heap' = h
     /\ collSubscribers' = IF shouldNotify THEN n.subs ELSE collSubscribers
     /\ calls' = IF shouldNotify THEN n.calls ELSE <<>>

\* a call that gives up without an error, as the earlier engine variants did
CollReturn(op, h) ==
  /\ heap' = h
  /\ calls' = <<>> /\ NoSend
  /\ lastOp' = Op(op, "ok")
  /\ UNCHANGED <<collStates, collSubscribers, collPending>>

\* a call that throws (or whose promise rejects) before it committed anything
CollFail(op, h) ==
  /\ heap' = h
  /\ calls' = <<>> /\ NoSend
  /\ lastOp' = Op(op, "error")
  /\ UNCHANGED <<collStates, collSubscribers, collPending>>

\* async function dispatch(key, type, payload, shouldNotify)
dispatch(key, type, payload, shouldNotify) ==
  IF ~MapHas(collStates, key) THEN CollFail(DispatchOp(shouldNotify), heap)
  ELSE IF type \notin collActions THEN CollFail(DispatchOp(shouldNotify), heap)
  ELSE
    LET state == MapGet(collStates, key)
        newState == state
        r == CollActionBody(type, newState, heap, payload)
    IN CASE r.out = "throw" -> CollFail(DispatchOp(shouldNotify), r.heap)
         [] r.out = "promise" ->
              /\ BagCardinality(collPending) < MaxPending
              /\ heap' = r.heap
              /\ collPending' = collPending (+) SetToBag(
                   {[key |-> key, type |-> type, draft |-> r.draft,
                     shouldNotify |-> shouldNotify]})
              /\ calls' = <<>> /\ NoSend
              /\ lastOp' = Op(DispatchOp(shouldNotify), "pending")
              /\ UNCHANGED <<collStates, collSubscribers>>
         [] r.out = "return" ->
              /\ CollCommit(key, r.draft, r.heap, shouldNotify)
              /\ SendToDevTools(type, key, MapSet(collStates, key, r.draft))
              /\ lastOp' = Returned(DispatchOp(shouldNotify), "ok", r.ret)
              /\ UNCHANGED collPending

\* the engine's dispatch function called as such
DirectDispatch(key, type, payload, shouldNotify) ==
  /\ type \notin CollTakesPayload => payload = FALSE
  /\ dispatch(key, type, payload, shouldNotify)
  /\ UNCHANGED <<storeVars, collActions, initialMap, collNextId>>

\* key(id).dispatch[type](payload) and key(id).silentDispatch[type](payload):
\* the functions createKeyDispatch(key, shouldNotify) builds
KeyDispatch(key, type, payload, shouldNotify) ==
  /\ type \notin CollTakesPayload => payload = FALSE
  /\ IF type \notin collActions
       THEN \* no such property on the dispatch object: calling it is a TypeError
            CollFail(DispatchOp(shouldNotify), heap)
     ELSE IF ~MapHas(collStates, key) THEN CollFail(DispatchOp(shouldNotify), heap)
     ELSE IF IsAsyncFunction(type) THEN dispatch(key, type, payload, shouldNotify)
     ELSE
       LET state == MapGet(collStates, key)
           newState == state
           r == CollActionBody(type, newState, heap, payload)
       IN IF r.out = "throw" THEN CollFail(DispatchOp(shouldNotify), r.heap)
          ELSE /\ CollCommit(key, r.draft, r.heap, shouldNotify)
               /\ SendToDevTools(type, key, MapSet(collStates, key, r.draft))
               /\ lastOp' = Returned(DispatchOp(shouldNotify),
                                     IF r.out = "promise" THEN "pending" ELSE "ok", r.ret)
               /\ UNCHANGED collPending
  /\ UNCHANGED <<storeVars, collActions, initialMap, collNextId>>

\* the promise awaited by the suspended dispatch p resolves with v
CollResolve(p, v) ==
  /\ BagIn(p, collPending)
  /\ CollCommit(p.key, CollActionResume(p.type, p.draft, v), heap, p.shouldNotify)
  /\ SendToDevTools(p.type, p.key,
                    MapSet(collStates, p.key, CollActionResume(p.type, p.draft, v)))
  /\ lastOp' = Returned("resolve", "ok", CollActionResult(p.type, p.draft, v))
  /\ collPending' = collPending (-) SetToBag({p})
  /\ UNCHANGED <<storeVars, collActions, initialMap, collNextId>>

\* the promise awaited by the suspended dispatch p rejects
CollReject(p) ==
  /\ BagIn(p, collPending)
  /\ lastOp' = Op("reject", "error")
  /\ collPending' = collPending (-) SetToBag({p})
  /\ calls' = <<>> /\ NoSend
  /\ UNCHANGED <<heap, storeVars, collActions, initialMap, collStates,
                 collSubscribers, collNextId>>

\* the callbacks of the passes r were invoked and their lastValues replaced
Deliver(r) ==
  /\ collSubscribers' = r.subs
  /\ calls' = r.calls

\* a set that runs the key's pass only
SetKeyOnly(key, state) ==
  LET m == MapSet(collStates, key, state)
  IN /\ collStates' = m
     /\ Deliver(NotifyKeySubscribers(collSubscribers, m, heap, key))
     /\ SendToDevTools("SET", key, m)
     /\ lastOp' = Op("set", "ok")
     /\ UNCHANGED <<heap, storeVars, collActions, initialMap, collNextId, collPending>>

Set(key, state) ==
  LET hadKey == MapHas(collStates, key)
      m == MapSet(collStates, key, state)
      r == NotifyKeySubscribers(collSubscribers, m, heap, key)
  IN /\ collStates' = m
     /\ Deliver(IF ~hadKey THEN NotifyMembership(r, m) ELSE r)
     /\ SendToDevTools("SET", key, m)
     /\ lastOp' = Op("set", "ok")
     /\ UNCHANGED <<heap, storeVars, collActions, initialMap, collNextId, collPending>>

Remove(key) ==
  LET hadKey == MapHas(collStates, key)
      m == MapDelete(collStates, key)
      r == NotifyKeySubscribers(collSubscribers, m, heap, key)
  IN /\ collStates' = m
     /\ Deliver(IF hadKey THEN NotifyMembership(r, m)
                          ELSE [subs |-> collSubscribers, calls |-> <<>>])
     /\ SendToDevTools("REMOVE", key, m)
     /\ lastOp' = Op("remove", "ok")
     /\ UNCHANGED <<heap, storeVars, collActions, initialMap, collNextId, collPending>>

Clear ==
  LET wasEmpty == MapSize(collStates) = 0
      m == <<>>
  IN /\ collStates' = m
     /\ Deliver(IF ~wasEmpty
                  THEN NotifyMembership(NotifyAllKeySubscribers(collSubscribers), m)
                  ELSE [subs |-> collSubscribers, calls |-> <<>>])
     /\ SendToDevTools("CLEAR", "", m)
     /\ lastOp' = Op("clear", "ok")
     /\ UNCHANGED <<heap, storeVars, collActions, initialMap, collNextId, collPending>>

CollReset ==
  LET hadItems == MapSize(collStates) > 0
      hasInitialItems == MapSize(initialMap) > 0
      m == initialMap
  IN /\ collStates' = m
     /\ Deliver(IF hadItems \/ hasInitialItems
                  THEN NotifyMembership(NotifyAllKeySubscribers(collSubscribers), m)
                  ELSE [subs |-> collSubscribers, calls |-> <<>>])
     /\ SendToDevTools("RESET", "", m)
     /\ lastOp' = Op("reset", "ok")
     /\ UNCHANGED <<heap, storeVars, collActions, initialMap, collNextId, collPending>>

\* the frame of the subscription functions
Registry(op, subs) ==
  /\ collSubscribers' = subs
  /\ calls' = <<>> /\ NoSend
  /\ lastOp' = Op(op, "ok")
  /\ UNCHANGED <<heap, storeVars, collActions, initialMap, collStates, collPending>>

SubscribeToKey(key, sel) ==
  LET id == collNextId
      keySubscribers == IF key \in DOMAIN collSubscribers.byKey
                          THEN collSubscribers.byKey[key] ELSE <<>>
      initialValue == IF MapHas(collStates, key)
                        THEN CollSelect(sel, MapGet(collStates, key)) ELSE Undefined
      bucket == [i \in DOMAIN keySubscribers \cup {id} |->
                   IF i = id THEN [selector |-> sel, lastValue |-> initialValue]
                             ELSE keySubscribers[i]]
  IN /\ collNextId' = collNextId + 1
     /\ Registry("subscribe",
          [collSubscribers EXCEPT !.byKey =
             [k \in DOMAIN collSubscribers.byKey \cup {key} |->
                IF k = key THEN bucket ELSE collSubscribers.byKey[k]]])

SubscribeToSize ==
  /\ collNextId' = collNextId + 1
  /\ Registry("subscribe",
       [collSubscribers EXCEPT !.size =
          [i \in DOMAIN collSubscribers.size \cup {collNextId} |->
             IF i = collNextId THEN [lastValue |-> Num(MapSize(collStates))]
                               ELSE collSubscribers.size[i]]])

SubscribeToKeys ==
  /\ collNextId' = collNextId + 1
  /\ Registry("subscribe",
       [collSubscribers EXCEPT !.keys =
          [i \in DOMAIN collSubscribers.keys \cup {collNextId} |->
             IF i = collNextId THEN [lastValue |-> KeysValue(collStates)]
                               ELSE collSubscribers.keys[i]]])

\* an unsubscribe function that drops the key's bucket with its observer
\* an unsubscribe that removes the observer and keeps the key's bucket,
\* empty or not
UnsubscribeKeyOnly(key, id) ==
  LET byKey == collSubscribers.byKey
  IN /\ UNCHANGED collNextId
     /\ Registry("unsubscribe",
          IF key \notin DOMAIN byKey THEN collSubscribers
          ELSE [collSubscribers EXCEPT !.byKey[key] =
                  [i \in DOMAIN byKey[key] \ {id} |-> byKey[key][i]]])

UnsubscribeKeyAndBucket(key, id) ==
  LET byKey == collSubscribers.byKey
  IN /\ UNCHANGED collNextId
     /\ Registry("unsubscribe",
          [collSubscribers EXCEPT !.byKey = [k \in DOMAIN byKey \ {key} |-> byKey[k]]])

\* the function subscribeToKey(key, ...) returned for `id`, called (for the
\* first time or again)
UnsubscribeKey(key, id) ==
  LET byKey == collSubscribers.byKey
  IN /\ UNCHANGED collNextId
     /\ Registry("unsubscribe",
          IF key \notin DOMAIN byKey THEN collSubscribers
          ELSE LET subs == [i \in DOMAIN byKey[key] \ {id} |-> byKey[key][i]]
               IN [collSubscribers EXCEPT !.byKey =
                     IF DOMAIN subs = {}
                       THEN [k \in DOMAIN byKey \ {key} |-> byKey[k]]
                       ELSE [byKey EXCEPT ![key] = subs]])

\* the function subscribeToSize returned for `id`, called
UnsubscribeSize(id) ==
  /\ id \in DOMAIN collSubscribers.size
  /\ UNCHANGED collNextId
  /\ Registry("unsubscribe",
       [collSubscribers EXCEPT !.size =
          [i \in DOMAIN collSubscribers.size \ {id} |-> collSubscribers.size[i]]])

\* the function subscribeToKeys returned for `id`, called
UnsubscribeKeys(id) ==
  /\ id \in DOMAIN collSubscribers.keys
  /\ UNCHANGED collNextId
  /\ Registry("unsubscribe",
       [collSubscribers EXCEPT !.keys =
          [i \in DOMAIN collSubscribers.keys \ {id} |-> collSubscribers.keys[i]]])

\* props.initialMap
InitialMaps ==
  {<<>>,
   <<[k |-> "a", v |-> Entry("a", TRUE)], [k |-> "b", v |-> Entry("b", TRUE)]>>}

\* createCollection(props)
CollInit(actions, maps) ==
  /\ heap = PropsHeap
  /\ NoDevTools
  /\ passes = Idle
  /\ initialStates = PropsStates
  /\ states = PropsStates
  /\ subscribers = <<>>
  /\ nextSubscriberId = 0
  /\ pending = EmptyBag
  /\ collActions = actions
  /\ initialMap \in maps
  /\ collStates = initialMap
  /\ collSubscribers = [byKey |-> <<>>, size |-> <<>>, keys |-> <<>>]
  /\ collNextId = 0
  /\ collPending = EmptyBag
  /\ calls = <<>>
  /\ lastOp = Op("create", "ok")

\* the operations on the keys `keys` of a collection, with the action names
\* `names` dispatched through key(id)
CollStep(keys, names) ==
  \/ \E key \in keys, active \in BOOLEAN : Set(key, Entry(key, active))
  \/ \E key \in keys : Remove(key)
  \/ Clear
  \/ CollReset
  \/ \E key \in keys, type \in names, payload \in BOOLEAN, n \in BOOLEAN :
       KeyDispatch(key, type, payload, n)
  \/ \E key \in keys, sel \in CollSelectors :
       collNextId < MaxSubs /\ SubscribeToKey(key, sel)
  \/ collNextId < MaxSubs /\ SubscribeToSize
  \/ collNextId < MaxSubs /\ SubscribeToKeys
  \/ \E key \in keys, id \in SubIds :
       id \in KeyObservers(key) /\ UnsubscribeKey(key, id)
  \/ \E id \in SubIds : UnsubscribeSize(id)
  \/ \E id \in SubIds : UnsubscribeKeys(id)

\* A collection whose registered actions are all plain functions.
CollectionInit == CollInit(SyncActions, InitialMaps)
CollectionNext == CollStep(Keys, SyncActions \cup {"missing"})
CollectionSpec == CollectionInit /\ [][CollectionNext]_vars

\* A collection with an async function among its actions.
AsyncKeys == {"a"}
AsyncInit == CollInit(AsyncActions, {<<>>, <<[k |-> "a", v |-> Entry("a", TRUE)]>>})
AsyncNext ==
  \/ CollStep(AsyncKeys, AsyncActions \cup {"missing"})
  \/ \E key \in AsyncKeys, type \in AsyncActions \cup {"missing"},
        payload \in BOOLEAN, n \in BOOLEAN : DirectDispatch(key, type, payload, n)
  \/ \E p \in BagToSet(collPending), v \in BOOLEAN : CollResolve(p, v)
  \/ \E p \in BagToSet(collPending) : CollReject(p)
AsyncSpec == AsyncInit /\ [][AsyncNext]_vars

\* A collection with an action that writes into a nested object of its draft.
NestedInit == CollInit(NestedActions, InitialMaps)
NestedNext == CollStep(Keys, NestedActions)
NestedSpec == NestedInit /\ [][NestedNext]_vars

\* A value store and a collection on which dispatches overlap: a plain action
\* is dispatched while the promise of an async action that writes no field of
\* its draft is still pending.
OverlapInit == CollInit(OverlapActions, {<<[k |-> "a", v |-> Entry("a", TRUE)]>>})
OverlapNext ==
  \/ nextSubscriberId < MaxSubs /\ Subscribe("count")
  \/ collNextId < MaxSubs /\ SubscribeToKey("a", "active")
  \/ \E type \in {"increment", "logVisit"} : Dispatch(type, 0, TRUE)
  \/ \E p \in BagToSet(pending) : Resolve(p, 0)
  \/ \E p \in BagToSet(pending) : Reject(p)
  \/ \E type \in OverlapActions : DirectDispatch("a", type, FALSE, TRUE)
  \/ \E type \in OverlapActions : KeyDispatch("a", type, FALSE, TRUE)
  \/ \E p \in BagToSet(collPending) : CollResolve(p, FALSE)
  \/ \E p \in BagToSet(collPending) : CollReject(p)
OverlapSpec == OverlapInit /\ [][OverlapNext]_vars

\* A value store and a collection whose observers, all of the collection's on
\* key "a", come and go; every id issued so far has an unsubscribe function.
MaxObservers == MaxSubs + 1
UnsubInit == CollInit(SyncActions, {<<[k |-> "a", v |-> Entry("a", TRUE)]>>})
UnsubNext ==
  \/ \E sel \in {"identity", "count"} : nextSubscriberId < MaxObservers /\ Subscribe(sel)
  \/ \E id \in 0..(MaxObservers - 1) : Unsubscribe(id)
  \/ \E sel \in CollSelectors : collNextId < MaxObservers /\ SubscribeToKey("a", sel)
  \/ \E id \in 0..(MaxObservers - 1) : id < collNextId /\ UnsubscribeKey("a", id)
UnsubSpec == UnsubInit /\ [][UnsubNext]_vars

\* A collection whose key "a" is dispatched to through key("a") and through
\* the engine's dispatch function.
FacadeInit == CollInit(FacadeActions, {<<[k |-> "a", v |-> Entry("a", TRUE)]>>})
FacadeNext ==
  \/ \E type \in FacadeActions, payload \in BOOLEAN, n \in BOOLEAN :
       KeyDispatch("a", type, payload, n)
  \/ \E type \in FacadeActions, payload \in BOOLEAN, n \in BOOLEAN :
       DirectDispatch("a", type, payload, n)
  \/ \E p \in BagToSet(collPending), v \in BOOLEAN : CollResolve(p, v)
  \/ \E p \in BagToSet(collPending) : CollReject(p)
  \/ \E sel \in CollSelectors : collNextId < MaxSubs /\ SubscribeToKey("a", sel)
  \/ Remove("a")
  \/ \E active \in BOOLEAN : Set("a", Entry("a", active))
FacadeSpec == FacadeInit /\ [][FacadeNext]_vars

\* a get(key, selector) that hands states.get(key) to the selector whether
\* or not the key is there: s => s.active on undefined is a TypeError, the
\* identity returns undefined
getKeySelectedEagerly(key, sel) ==
  IF MapHas(collStates, key)
    THEN [outcome |-> "ok", result |-> CollSelect(sel, MapGet(collStates, key))]
    ELSE [outcome |-> IF sel = "identity" THEN "ok" ELSE "error", result |-> Undefined]

\* get(key, selector) of the collection: its outcome and the value returned
getKeySelected(key, sel) ==
  IF ~MapHas(collStates, key) THEN [outcome |-> "ok", result |-> Undefined]
  ELSE [outcome |-> "ok", result |-> CollSelect(sel, MapGet(collStates, key))]

\* props.selectors of the value store: { isCount: (s, n) => s.count === n }
StoreSelectorNames == {"isCount"}

\* props.selectors[name](state, payload)
StoreNamedSelector(name, st, payload) ==
  CASE name = "isCount" -> Bool(st.count = payload)

\* a get(name, payload) that answers undefined for a name that is not
\* registered
getNamedOrUndefined(name, payload) ==
  IF name \notin StoreSelectorNames THEN [outcome |-> "ok", result |-> Undefined]
  ELSE [outcome |-> "ok", result |-> StoreNamedSelector(name, getState, payload)]

\* get(name, payload) of the value store: its outcome and the value returned
getNamed(name, payload) ==
  IF name \notin StoreSelectorNames THEN [outcome |-> "error", result |-> Undefined]
  ELSE [outcome |-> "ok", result |-> StoreNamedSelector(name, getState, payload)]

\* a read that ended with `outcome` and handed `result` to its caller
ReadOp(op, args, outcome, result) ==
  [op |-> op, outcome |-> outcome, result |-> result, args |-> args]

\* store.get()
ReadState ==
  /\ lastOp' = ReadOp("get()", <<>>, "ok", RecOf(get))
  /\ calls' = <<>> /\ NoSend
  /\ UNCHANGED <<heap, storeVars, collVars>>

\* store.get(selector)
ReadSelected(sel) ==
  /\ lastOp' = ReadOp("get(selector)", <<sel>>, "ok", getSelected(sel))
  /\ calls' = <<>> /\ NoSend
  /\ UNCHANGED <<heap, storeVars, collVars>>

\* store.get(name, payload)
ReadNamed(name, payload) ==
  /\ lastOp' = ReadOp("get(name, payload)", <<name, payload>>,
                      getNamed(name, payload).outcome, getNamed(name, payload).result)
  /\ calls' = <<>> /\ NoSend
  /\ UNCHANGED <<heap, storeVars, collVars>>

\* collection.get(key)
ReadKey(key) ==
  /\ lastOp' = ReadOp("get(key)", <<key>>, "ok", collGet(key))
  /\ calls' = <<>> /\ NoSend
  /\ UNCHANGED <<heap, storeVars, collVars>>

\* collection.get(key, selector)
ReadKeySelected(key, sel) ==
  /\ lastOp' = ReadOp("get(key, selector)", <<key, sel>>,
                      getKeySelected(key, sel).outcome, getKeySelected(key, sel).result)
  /\ calls' = <<>> /\ NoSend
  /\ UNCHANGED <<heap, storeVars, collVars>>

\* collection.getSize()
ReadSize ==
  /\ lastOp' = ReadOp("getSize()", <<>>, "ok", Num(getSize))
  /\ calls' = <<>> /\ NoSend
  /\ UNCHANGED <<heap, storeVars, collVars>>

\* collection.getKeys()
ReadKeys ==
  /\ lastOp' = ReadOp("getKeys()", <<>>, "ok", KeysValue(collStates))
  /\ calls' = <<>> /\ NoSend
  /\ UNCHANGED <<heap, storeVars, collVars>>

\* One value store and one collection that are read between writes.
ReadInit == CollInit(SyncActions, InitialMaps)
ReadNext ==
  \/ ReadState
  \/ \E sel \in StoreSelectors : ReadSelected(sel)
  \/ \E name \in StoreSelectorNames \cup {"missing"}, payload \in Vals :
       ReadNamed(name, payload)
  \/ \E key \in Keys : ReadKey(key)
  \/ \E key \in Keys, sel \in CollSelectors : ReadKeySelected(key, sel)
  \/ ReadSize
  \/ ReadKeys
  \/ nextSubscriberId < MaxSubs /\ Subscribe("count")
  \/ Dispatch("increment", 0, TRUE)
  \/ \E key \in Keys : collNextId < MaxSubs /\ SubscribeToKey(key, "active")
  \/ \E key \in Keys : Set(key, Entry(key, FALSE))
  \/ \E key \in Keys : Remove(key)
ReadSpec == ReadInit /\ [][ReadNext]_vars

\* One collection, two keys, operated on key by key: set, remove, dispatch
\* (of an action writing a field and of one writing a nested object),
\* key observers coming and going.
FrameActions == {"toggleActive", "toggleSidebar"}
FrameInit == CollInit(FrameActions, InitialMaps)
FrameNext ==
  \/ \E key \in Keys, active \in BOOLEAN : Set(key, Entry(key, active))
  \/ \E key \in Keys : Remove(key)
  \/ \E key \in Keys, type \in FrameActions : KeyDispatch(key, type, FALSE, TRUE)
  \/ \E key \in Keys, sel \in CollSelectors :
       collNextId < MaxSubs /\ SubscribeToKey(key, sel)
  \/ \E key \in Keys, id \in SubIds :
       id \in KeyObservers(key) /\ UnsubscribeKey(key, id)
FrameSpec == FrameInit /\ [][FrameNext]_vars

\* isDeepEqual on its own.  The values are cycle-free and given in full (no
\* heap references): primitives, null and undefined, arrays and plain
\* objects of them, and one more level of nesting.
SeqsUpTo(S, n) == UNION {[1..k -> S] : k \in 0..n}
FieldNames == {"x", "y"}
Prims == {Undefined, Null, NaN, Bool(TRUE), Str("a")} \cup {Num(n) : n \in Vals}
Tiny == {Undefined, Null, Num(0)}
Flat ==
  {Arr(s) : s \in SeqsUpTo(Tiny, MaxLen)}
    \cup UNION {{Obj(f) : f \in [K -> Tiny]} : K \in SUBSET FieldNames}
Deep ==
  {Arr(<<v>>) : v \in Flat}
    \cup {Obj([x |-> v]) : v \in Flat}
    \cup {Obj([x |-> v, y |-> w]) : v \in Flat, w \in Tiny}
Values == Prims \cup Flat \cup Deep

\* the caller has built its arguments: two values held separately, or one
\* value handed in twice
Called(a, b, same) ==
  [op |-> "isDeepEqual", outcome |-> "called", result |-> Undefined,
   args |-> [a |-> a, b |-> b, same |-> same]]

\* isDeepEqual(a, b) on two values held separately
Compare ==
  /\ Ended(lastOp, "isDeepEqual", "called")
  /\ ~lastOp.args.same
  /\ lastOp' = [lastOp EXCEPT !.outcome = "ok",
                  !.result = Bool(isDeepEqual(lastOp.args.a, lastOp.args.b))]
  /\ UNCHANGED <<heap, storeVars, collVars, calls, devVars>>

\* isDeepEqual(a, a): one value handed in twice, answered by `a === b`
\* (line 132) for anything but NaN, which goes on to Object.is
CompareSame ==
  /\ Ended(lastOp, "isDeepEqual", "called")
  /\ lastOp.args.same
  /\ lastOp' = [lastOp EXCEPT !.outcome = "ok",
                  !.result = Bool(IF lastOp.args.a = NaN
                                    THEN isDeepEqual(lastOp.args.a, lastOp.args.b)
                                    ELSE TRUE)]
  /\ UNCHANGED <<heap, storeVars, collVars, calls, devVars>>

DeepEqInit ==
  /\ NoCollection
  /\ heap = PropsHeap
  /\ NoDevTools
  /\ passes = Idle
  /\ initialStates = PropsStates
  /\ states = PropsStates
  /\ subscribers = <<>>
  /\ nextSubscriberId = 0
  /\ pending = EmptyBag
  /\ calls = <<>>
  /\ \/ \E a \in Values, b \in Values : lastOp = Called(a, b, FALSE)
     \/ \E a \in Values : lastOp = Called(a, a, TRUE)
DeepEqNext ==
  \/ Compare
  \/ CompareSame
DeepEqSpec == DeepEqInit /\ [][DeepEqNext]_vars

\* isDeepEqual on values whose objects record the order in which their keys
\* were inserted and whose arrays have two elements at least.
SymNums == {Num(0), Num(1)}
SymArrays == {Arr(s) : s \in SeqsUpTo(SymNums, MaxLen + 1)}
KeyOrders == {<<>>, <<"x">>, <<"y">>, <<"x", "y">>, <<"y", "x">>}
SymObjects ==
  UNION {{OrderedObj(o, f) : f \in [{o[i] : i \in DOMAIN o} -> SymNums]} : o \in KeyOrders}
SymNested ==
  {OrderedObj(<<"x">>, [x |-> v]) : v \in SymObjects \cup SymArrays}
    \cup {Arr(<<v>>) : v \in SymObjects}
SymValues == {Undefined, Null} \cup SymNums \cup SymArrays \cup SymObjects \cup SymNested

SymInit ==
  /\ NoCollection
  /\ heap = PropsHeap
  /\ NoDevTools
  /\ passes = Idle
  /\ initialStates = PropsStates
  /\ states = PropsStates
  /\ subscribers = <<>>
  /\ nextSubscriberId = 0
  /\ pending = EmptyBag
  /\ calls = <<>>
  /\ \E a \in SymValues, b \in SymValues : lastOp = Called(a, b, FALSE)
SymNext == Compare
SymSpec == SymInit /\ [][SymNext]_vars

\* isDeepEqual on primitives, and a value store observed through a selector
\* whose value can be NaN.
NaNInit ==
  /\ NoCollection
  /\ heap = PropsHeap
  /\ NoDevTools
  /\ passes = Idle
  /\ initialStates = PropsStates
  /\ states = PropsStates
  /\ subscribers = <<>>
  /\ nextSubscriberId = 0
  /\ pending = EmptyBag
  /\ calls = <<>>
  /\ \/ \E a \in Prims, b \in Prims : lastOp = Called(a, b, FALSE)
     \/ \E a \in Prims : lastOp = Called(a, a, TRUE)
NaNNext ==
  \/ Compare
  \/ CompareSame
  \/ \E sel \in {"ratio", "count"} : nextSubscriberId < MaxSubs /\ Subscribe(sel)
  \/ \E payload \in Vals : Dispatch("setCount", payload, TRUE)
  \/ Dispatch("toggleSidebar", 0, TRUE)
NaNSpec == NaNInit /\ [][NaNNext]_vars

\* One value store read while an async action that writes a nested field
\* before its await is pending.
PendingInit == StoreInit
PendingNext ==
  \/ \E sel \in StoreSelectors : nextSubscriberId < MaxSubs /\ Subscribe(sel)
  \/ \E type \in {"increment", "saveSidebar"}, n \in BOOLEAN : Dispatch(type, 0, n)
  \/ \E p \in BagToSet(pending), v \in Vals : Resolve(p, v)
  \/ \E p \in BagToSet(pending) : Reject(p)
  \/ Reset
PendingSpec == PendingInit /\ [][PendingNext]_vars

\* One value store whose observers all register while an async dispatch is
\* pending; every dispatch notifies.
RegisterInit == StoreInit
RegisterNext ==
  \/ \E sel \in StoreSelectors :
       nextSubscriberId < MaxSubs /\ pending # EmptyBag /\ Subscribe(sel)
  \/ \E id \in SubIds : Unsubscribe(id)
  \/ \E payload \in Vals : Dispatch("setCount", payload, TRUE)
  \/ Dispatch("fetchCount", 0, TRUE)
  \/ \E p \in BagToSet(pending), v \in Vals : Resolve(p, v)
  \/ \E p \in BagToSet(pending) : Reject(p)
  \/ Reset
RegisterSpec == RegisterInit /\ [][RegisterNext]_vars

\* One value store whose async action's promise always resolves: the part
\* of dispatch after `await result` is a continuation the event loop runs
\* once the promise has resolved, hence the weak fairness on Resolve.
LiveInit == StoreInit
LiveNext ==
  \/ nextSubscriberId < MaxSubs /\ Subscribe("count")
  \/ \E payload \in Vals, n \in BOOLEAN : Dispatch("setCount", payload, n)
  \/ \E n \in BOOLEAN : Dispatch("fetchCount", 0, n)
  \/ \E p \in BagToSet(pending), v \in Vals : Resolve(p, v)
  \/ Reset
LiveSpec ==
  /\ LiveInit
  /\ [][LiveNext]_vars
  /\ WF_vars(\E p \in BagToSet(pending), v \in Vals : Resolve(p, v))

\* -------------------------------------------------- the devtools bridge
\* message.state of an inbound message: absent, a text that is not JSON, or
\* the JSON text of { count, sidebar: { isOpen } }
NoState == [text |-> "undefined"]
Garbage == [text |-> "not json"]
Snapshot(count, isOpen) == [text |-> "json", count |-> count, isOpen |-> isOpen]
Snapshots == {Snapshot(c, o) : c \in Vals, o \in BOOLEAN}
\* the text '{}'
EmptyObjectText == [text |-> "{}"]
\* the object {}
EmptyObject == [k \in {} |-> 0]

\* The nested objects something of the store still refers to; JSON.parse
\* builds its objects out of the others.
RecRefs(st) == IF "sidebar" \in DOMAIN st THEN {st.sidebar} ELSE {}
RefsOf(v) ==
  CASE v.t = "ref" -> {v.r}
    [] v.t = "rec" -> RecRefs(v.rec)
    [] OTHER -> {}
LiveRefs ==
  RecRefs(states) \cup RecRefs(initialStates)
    \cup UNION {RefsOf(subscribers[id].lastValue) : id \in DOMAIN subscribers}
    \cup UNION {RecRefs(p.draft) : p \in BagToSet(pending)}

\* JSON.parse(text): throws on a text that is not JSON, and builds new
\* objects otherwise (the nested one at the reference r)
JSONParse(text, r, h) ==
  CASE text = Garbage -> [out |-> "throw", value |-> EmptyObject, heap |-> h]
    [] text = EmptyObjectText -> [out |-> "return", value |-> EmptyObject, heap |-> h]
    [] OTHER -> [out |-> "return",
                 value |-> [count |-> text.count, sidebar |-> r],
                 heap |-> [h EXCEPT ![r] = [isOpen |-> text.isOpen]]]

\* notify() in which the callback of the observer `thrower` throws when it is
\* invoked: the observers after it are not reached
NotifyUntilThrow(subs, st, h, thrower) ==
  LET changed == {id \in DOMAIN subs :
                    ~DeepEq(h, Select(subs[id].selector, st, h), subs[id].lastValue)}
      threw == thrower \in changed
      reached == IF threw THEN {id \in changed : id <= thrower} ELSE changed
  IN [subs |-> [id \in DOMAIN subs |->
                  IF id \in reached
                    THEN [subs[id] EXCEPT !.lastValue = Select(subs[id].selector, st, h)]
                    ELSE subs[id]],
      calls |-> SortedSeq(reached),
      threw |-> threw]

\* the listener handed to devTools.subscribe returned after `message`
Inbound(type, payloadType, state) ==
  [op |-> "message", outcome |-> "ok", result |-> Undefined,
   args |-> [type |-> type, payloadType |-> payloadType, state |-> state]]

JumpTypes == {"JUMP_TO_ACTION", "JUMP_TO_STATE"}

\* the listener on { type: 'DISPATCH', payload: { type: payloadType }, state }
\* with payloadType one of the jumps; `thrower` is the observer whose
\* callback throws when invoked (-1: none does)
OnJump(payloadType, state, thrower) ==
  /\ devTools # "null"
  /\ payloadType \in JumpTypes
  /\ LET text == IF state = NoState THEN EmptyObjectText ELSE state
         free == Refs \ LiveRefs
     IN /\ text \in Snapshots => free # {}
        /\ LET r == IF free = {} THEN 1 ELSE CHOOSE x \in free : \A y \in free : x <= y
               parsed == JSONParse(text, r, heap)
               newState == parsed.value
               n == NotifyUntilThrow(subscribers, newState, parsed.heap, thrower)
           IN IF parsed.out = "throw"
                THEN \* caught: console.error
                     /\ thrower = -1
                     /\ calls' = <<>>
                     /\ UNCHANGED <<heap, states, subscribers, devVars>>
                ELSE /\ heap' = parsed.heap
                     /\ states' = newState
                     /\ subscribers' = n.subs
                     /\ calls' = n.calls
                     /\ thrower # -1 => n.threw
                     \* pauseDevTools = false is skipped when notify() threw
                     /\ pauseDevTools' = n.threw
                     /\ UNCHANGED <<devTools, sent>>
  /\ lastOp' = Inbound("DISPATCH", payloadType, state)
  /\ UNCHANGED <<initialStates, nextSubscriberId, pending, collVars, passes>>

\* the listener on { type: 'DISPATCH', payload: { type: 'RESET' } }
OnReset ==
  /\ devTools # "null"
  /\ reset
  /\ lastOp' = Inbound("DISPATCH", "RESET", NoState)

\* the listener on any other message
OnOther(type, payloadType) ==
  /\ devTools # "null"
  /\ type # "DISPATCH" \/ payloadType \notin JumpTypes \cup {"RESET"}
  /\ calls' = <<>> /\ NoSend
  /\ lastOp' = Inbound(type, payloadType, NoState)
  /\ UNCHANGED <<heap, states, initialStates, subscribers, nextSubscriberId, pending,
                 collVars, passes>>

\* One value store connected to the devtools extension.
DevInit ==
  /\ NoCollection
  /\ heap = PropsHeap
  /\ devTools = "connected"
  /\ pauseDevTools = FALSE
  /\ sent = <<>>
  /\ passes = Idle
  /\ initialStates = PropsStates
  /\ states = PropsStates
  /\ subscribers = <<>>
  /\ nextSubscriberId = 0
  /\ pending = EmptyBag
  /\ calls = <<>>
  /\ lastOp = Op("create", "ok")
DevNext ==
  \/ \E sel \in {"identity", "count"} : nextSubscriberId < MaxSubs /\ Subscribe(sel)
  \/ \E payload \in Vals, n \in BOOLEAN : Dispatch("setCount", payload, n)
  \/ Reset
  \/ \E payloadType \in JumpTypes, state \in Snapshots \cup {NoState, Garbage},
        thrower \in {-1} \cup DOMAIN subscribers :
       OnJump(payloadType, state, thrower)
  \/ OnReset
  \/ \E m \in {<<"DISPATCH", "COMMIT">>, <<"START", "">>} : OnOther(m[1], m[2])
DevSpec == DevInit /\ [][DevNext]_vars

\* ------------------------------------- the value store, step by step
\* What a callback does when it is invoked: return at once, or make one
\* call on the store first.
Behaviours ==
  {[do |-> "return"]}
    \cup {[do |-> "unsubscribe", id |-> j] : j \in 0..(MaxObservers - 1)}
    \cup {[do |-> "subscribe", selector |-> sel] : sel \in {"count"}}
    \cup {[do |-> "dispatch", payload |-> v] : v \in Vals}

\* a notify() call that does nothing while another one is running
EnterOnce(frames, ids) ==
  IF frames = <<>> THEN Append(frames, SortedSeq(ids)) ELSE frames

\* const subs = Array.from(subscribers.values())
Enter(frames, ids) == Append(frames, SortedSeq(ids))

\* the ids some unfinished notify() call still has in its array
Held(frames) == UNION {{frames[i][j] : j \in DOMAIN frames[i]} : i \in DOMAIN frames}

\* the subscriber object with this id, in the Map or only in an array
SubObject(id) ==
  IF id \in DOMAIN subscribers THEN subscribers[id] ELSE passes.detached[id]

\* dispatch(type, payload) of a plain action called by the application, up
\* to the first statement of notify()
BeginDispatch(type, payload) ==
  /\ passes.frames = <<>>
  /\ LET newState == states
         r == ActionBody(type, newState, heap, payload)
     IN /\ r.out = "return"
        /\ states' = r.draft
        /\ heap' = r.heap
        /\ SendToDevTools(type, "", r.draft)
  /\ passes' = [passes EXCEPT !.frames = Enter(@, DOMAIN subscribers)]
  /\ calls' = <<>>
  /\ lastOp' = Op("dispatch", "notifying")
  /\ UNCHANGED <<initialStates, subscribers, nextSubscriberId, pending, collVars>>

\* reset() called by the application, up to the first statement of notify()
BeginReset ==
  /\ passes.frames = <<>>
  /\ LET prevStates == states
         next == initialStates
     IN /\ states' = next
        /\ SendToDevTools("RESET", "", next)
        /\ passes' = IF ~DeepEq(heap, RecOf(prevStates), RecOf(next))
                       THEN [passes EXCEPT !.frames = Enter(@, DOMAIN subscribers)]
                       ELSE passes
  /\ calls' = <<>>
  /\ lastOp' = Op("reset", "notifying")
  /\ UNCHANGED <<heap, initialStates, subscribers, nextSubscriberId, pending, collVars>>

\* one iteration of the innermost notify() loop; b is what the callback does
\* if it is invoked.  A dispatch made by the callback runs up to the first
\* statement of its own notify().
Visit(b) ==
  /\ passes.frames # <<>>
  /\ passes.frames[Len(passes.frames)] # <<>>
  /\ LET frames == passes.frames
         id == Head(frames[Len(frames)])
         rest == [frames EXCEPT ![Len(frames)] = Tail(@)]
         sub == SubObject(id)
         currentState == getState
         newValue == Select(sub.selector, currentState, heap)
         changed == ~DeepEq(heap, newValue, sub.lastValue)
         subs == IF changed /\ id \in DOMAIN subscribers
                   THEN [subscribers EXCEPT ![id].lastValue = newValue]
                   ELSE subscribers
         detached == IF changed /\ id \notin DOMAIN subscribers
                       THEN [passes.detached EXCEPT ![id].lastValue = newValue]
                       ELSE passes.detached
         seen == IF changed
                   THEN [i \in DOMAIN passes.seen \cup {id} |->
                           IF i = id THEN Deref(heap, newValue) ELSE passes.seen[i]]
                   ELSE passes.seen
         Keep(d, fs) == [i \in DOMAIN d \cap Held(fs) |-> d[i]]
     IN /\ calls' = IF changed THEN Append(calls, id) ELSE calls
        /\ lastOp' = Op("visit", IF changed THEN b.do ELSE "skipped")
        /\ IF ~changed \/ b.do = "return"
             THEN /\ b.do = "return"
                  /\ subscribers' = subs
                  /\ passes' = [frames |-> rest, detached |-> Keep(detached, rest),
                                seen |-> seen]
                  /\ NoSend
                  /\ UNCHANGED <<heap, states, nextSubscriberId>>
           ELSE IF b.do = "unsubscribe"
             THEN /\ b.id < nextSubscriberId
                  /\ subscribers' = [i \in DOMAIN subs \ {b.id} |-> subs[i]]
                  /\ passes' =
                       [frames |-> rest,
                        detached |-> Keep([i \in DOMAIN detached \cup
                                                   (DOMAIN subs \cap {b.id}) |->
                                             IF i \in DOMAIN subs THEN subs[i]
                                                                  ELSE detached[i]],
                                          rest),
                        seen |-> seen]
                  /\ NoSend
                  /\ UNCHANGED <<heap, states, nextSubscriberId>>
           ELSE IF b.do = "subscribe"
             THEN /\ nextSubscriberId < MaxObservers
                  /\ nextSubscriberId' = nextSubscriberId + 1
                  /\ subscribers' =
                       [i \in DOMAIN subs \cup {nextSubscriberId} |->
                          IF i = nextSubscriberId
                            THEN [selector |-> b.selector,
                                  lastValue |-> Select(b.selector, getState, heap)]
                            ELSE subs[i]]
                  /\ passes' = [frames |-> rest, detached |-> Keep(detached, rest),
                                seen |-> seen]
                  /\ NoSend
                  /\ UNCHANGED <<heap, states>>
           ELSE LET r == ActionBody("setCount", states, heap, b.payload)
                    fs == Enter(rest, DOMAIN subs)
                IN /\ Len(frames) < MaxDepth
                   /\ states' = r.draft
                   /\ heap' = r.heap
                   /\ SendToDevTools("setCount", "", r.draft)
                   /\ subscribers' = subs
                   /\ passes' = [frames |-> fs, detached |-> Keep(detached, fs),
                                 seen |-> seen]
                   /\ UNCHANGED nextSubscriberId
  /\ UNCHANGED <<initialStates, pending, collVars>>

\* the innermost notify() returns
Return ==
  /\ passes.frames # <<>>
  /\ passes.frames[Len(passes.frames)] = <<>>
  /\ passes' = [passes EXCEPT !.frames = SubSeq(@, 1, Len(@) - 1)]
  /\ lastOp' = Op("notify", "ok")
  /\ NoSend
  /\ UNCHANGED <<heap, states, initialStates, subscribers, nextSubscriberId, pending,
                 collVars, calls>>

\* One value store whose callbacks call dispatch, subscribe and unsubscribe
\* while a notification pass is running; every dispatch notifies.
PassInit == StoreInit
PassNext ==
  \/ passes.frames = <<>> /\ nextSubscriberId < MaxObservers /\ Subscribe("count")
  \/ \E payload \in Vals : BeginDispatch("setCount", payload)
  \/ BeginReset
  \/ \E b \in Behaviours : Visit(b)
  \/ Return
PassSpec == PassInit /\ [][PassNext]_vars

\* ---------------------------------------------------------------- claims

\* An observer's callback ran exactly once in the step if its selector value
\* on the committed state is not deep-equal to the lastValue it had before
\* the step, and did not run otherwise.
NotifiedIffChanged ==
  /\ \A i \in 1..Len(calls') : calls'[i] \in DOMAIN subscribers
  /\ \A id \in DOMAIN subscribers :
       Count(calls', id) =
         IF DeepEq(heap', Select(subscribers[id].selector, states', heap'),
                   subscribers[id].lastValue)
           THEN 0 ELSE 1

\* C1: a notifying dispatch of the value store (committing at once, or when
\* its promise resolves) invokes each observer's callback exactly once if the
\* observer's selector value on the committed state is not deep-equal to its
\* lastValue and not at all otherwise; `increment` adds one to count.
\* (Stated step by step: a dispatch or a resolution whose callbacks are not
\* as NotifiedIffChanged says is not a notifying one.)
C1_ChangeSuppression ==
  [][/\ (lastOp' = Op("dispatch", "ok") /\ ~NotifiedIffChanged)
          => \A type \in Actions :
               \A payload \in IF type \in TakesPayload THEN Vals ELSE {0} :
                 ~Dispatch(type, payload, TRUE)
     /\ (lastOp' = Op("resolve", "ok") /\ ~NotifiedIffChanged)
          => \A p \in BagToSet(pending), v \in Vals : ~(p.shouldNotify /\ Resolve(p, v))
     /\ (lastOp' = Op("dispatch", "ok") /\ states'.count # states.count + 1)
          => ~Dispatch("increment", 0, TRUE)]_vars

\* C1 witness: after increment from {count: 0}, the observer on s => s.count
\* has been called once and get().count is 1.
C1_Witness ==
  /\ lastOp = Op("dispatch", "ok")
  /\ get.count = 1
  /\ 0 \in DOMAIN subscribers
  /\ subscribers[0].selector = "count"
  /\ subscribers[0].lastValue = Num(1)
  /\ calls = <<0>>

\* C2: dispatching an action name that is not registered fails with an error,
\* leaves the state unchanged and invokes no callback.
C2_UnregisteredDispatchFails ==
  [][\A n \in BOOLEAN :
       Dispatch("missing", 0, n)
         => /\ lastOp'.outcome = "error"
            /\ states' = states
            /\ calls' = <<>>]_vars


\* ---------------------------------------------------------- collection
ShapeObservers == DOMAIN collSubscribers.size \cup DOMAIN collSubscribers.keys

\* C3: a collection dispatch, direct or through key(id).dispatch or
\* key(id).silentDispatch, against an absent key or with an unregistered
\* action name fails with an error, leaves the entries unchanged and invokes
\* no observer callback.
\* (Stated step by step: a dispatch that did not end in an error, or changed
\* an entry, or invoked a callback, was not one against an absent key or with
\* an unregistered name.)
C3_BadDispatchFails ==
  [][( /\ lastOp'.op \in {"dispatch", "silentDispatch"}
       /\ ~ /\ lastOp'.outcome = "error"
             /\ collStates' = collStates
             /\ heap' = heap
             /\ calls' = <<>> )
     => \A key \in AsyncKeys, type \in AsyncActions \cup {"missing"},
           payload \in BOOLEAN, n \in BOOLEAN :
          (~MapHas(collStates, key) \/ type \notin collActions)
            => ~(KeyDispatch(key, type, payload, n) \/ DirectDispatch(key, type, payload, n))]_vars

C3_Witness ==
  /\ lastOp = Op("dispatch", "error")
  /\ ~MapHas(collStates, "a")
  /\ KeyObservers("a") # {}
  /\ calls = <<>>

\* C4: set(key, v) on an absent key invokes every size observer and every keys
\* observer exactly once; on a present key it invokes no size and no keys
\* observer; in both cases the only key-scoped observers invoked are those of
\* `key`.
C4_SetFanOut ==
  [][lastOp'.op = "set" =>
       \A key \in Keys, active \in BOOLEAN :
         Set(key, Entry(key, active)) =>
           /\ \A id \in ShapeObservers :
                Count(calls', id) = IF MapHas(collStates, key) THEN 0 ELSE 1
           /\ \A i \in 1..Len(calls') :
                calls'[i] \in KeyObservers(key) \cup ShapeObservers]_vars

C4_Witness ==
  /\ lastOp = Op("set", "ok")
  /\ DOMAIN collSubscribers.size = {0}
  /\ collSubscribers.size[0].lastValue = Num(1)
  /\ getKeys = <<"b">>
  /\ calls = <<0>>

\* C5: remove(key) on a present key invokes the key-scoped observers of that
\* key and the size and keys observers; on an absent key it changes nothing
\* and invokes no callback.
C5_RemoveNotifies ==
  [][\A key \in Keys :
       Remove(key) =>
         IF MapHas(collStates, key)
           THEN \A id \in KeyObservers(key) \cup ShapeObservers : Count(calls', id) = 1
           ELSE collStates' = collStates /\ calls' = <<>>]_vars

\* C6: after clear() the size is 0 and no key has an entry; if the map was
\* non-empty every key-scoped, size and keys observer is invoked once, and if
\* it was empty no callback is invoked.
C6_ClearNotifiesAll ==
  [][Clear =>
       /\ MapSize(collStates') = 0
       /\ IF MapSize(collStates) > 0
            THEN \A id \in CollSubIds(collSubscribers) : Count(calls', id) = 1
            ELSE calls' = <<>>]_vars

\* C7: after reset() of the value store get() is deep-equal to the record
\* passed at construction, whatever was dispatched before.
C7_ResetRestoresConstruction ==
  lastOp = Op("reset", "ok")
    => Deref(heap, RecOf(get)) = Deref(PropsHeap, RecOf(PropsStates))

\* C8: after reset() of the collection getKeys() is the initial map's keys in
\* the initial map's order and get(k) is deep-equal to the initial record of
\* every such k (no entries at all when there was no initial map).
C8_ResetRestoresInitialMap ==
  lastOp = Op("reset", "ok")
    => /\ getKeys = MapKeys(initialMap)
       /\ \A key \in Keys :
            MapHas(initialMap, key) =>
              Deref(heap, collGet(key)) = Deref(PropsHeap, EntryOf(MapGet(initialMap, key)))

\* C9: a dispatch whose action returned a promise that is still pending has
\* committed nothing and invoked no observer callback.
C9_NothingBeforeResolution ==
  [][\A key \in Keys, type \in SyncActions, payload \in BOOLEAN, n \in BOOLEAN :
       (KeyDispatch(key, type, payload, n) /\ lastOp'.outcome = "pending")
         => collStates' = collStates /\ calls' = <<>>]_vars

\* C10: a dispatch whose action throws, or whose promise rejects, leaves
\* current exactly as it was and invokes no observer callback.
C10_FailedDispatchCommitsNothing ==
  [][/\ \A type \in Actions, payload \in Vals, n \in BOOLEAN :
          (Dispatch(type, payload, n) /\ lastOp'.outcome = "error")
            => Deref(heap', RecOf(states')) = Deref(heap, RecOf(states)) /\ calls' = <<>>
     /\ \A p \in BagToSet(pending) :
          Reject(p)
            => Deref(heap', RecOf(states')) = Deref(heap, RecOf(states)) /\ calls' = <<>>]_vars

\* C11: overlapping dispatches on one value store, or on one collection key,
\* are not serialized.  A dispatch that suspends holds the clone it made of
\* the state current at its own invocation, and when its promise resolves the
\* state (the key's entry) becomes that clone with the action's writes, whatever
\* was committed in between: a field written only by a dispatch that committed
\* in between is back at the value it had when the suspended dispatch was
\* invoked.
C11_LostUpdate ==
  [][/\ Ended(lastOp', "dispatch", "pending") =>
          \/ \E type \in Actions :
               /\ pending' = pending (+) SetToBag(
                    {[type |-> type, draft |-> states, shouldNotify |-> TRUE]})
               /\ states' = states
          \/ \E type \in collActions :
               /\ collPending' = collPending (+) SetToBag(
                    {[key |-> "a", type |-> type, draft |-> MapGet(collStates, "a"),
                      shouldNotify |-> TRUE]})
               /\ collStates' = collStates
     /\ Ended(lastOp', "resolve", "ok") =>
          \/ \E p \in BagToSet(pending) :
               /\ pending' = pending (-) SetToBag({p})
               /\ states' = ActionResume(p.type, p.draft, 0)
          \/ \E p \in BagToSet(collPending) :
               /\ collPending' = collPending (-) SetToBag({p})
               /\ MapGet(collStates', p.key) = CollActionResume(p.type, p.draft, FALSE)]_vars

\* C11 witness: logVisit was dispatched at count 0, increment committed count 1
\* while it was pending, and its resolution put count back to 0: the observer
\* on s => s.count was called by the resolution and holds 0.
C11_Witness ==
  /\ Ended(lastOp, "resolve", "ok")
  /\ get.count = 0
  /\ 0 \in DOMAIN subscribers
  /\ subscribers[0].lastValue = Num(0)
  /\ calls = <<0>>

\* C12: a collection dispatch never changes membership: when a dispatch
\* commits, at once or when its promise resolves, the keys of the collection
\* (and so its size) are the keys it had just before the commit, also when
\* remove, clear or reset ran while the promise was pending.
C12_DispatchKeepsMembership ==
  [][lastOp'.op \in {"dispatch", "silentDispatch", "resolve"} =>
       /\ MapKeys(collStates') = MapKeys(collStates)
       /\ MapSize(collStates') = MapSize(collStates)]_vars

\* The pass of the step invoked each observer of `key` once if its selector
\* value on the entry the step left (undefined when it left none) is not
\* deep-equal to the lastValue it had, and not at all otherwise.
KeyPassExact(key) ==
  \A id \in KeyObservers(key) :
    LET o == collSubscribers.byKey[key][id]
        value == IF MapHas(collStates', key)
                   THEN CollSelect(o.selector, MapGet(collStates', key))
                   ELSE Undefined
    IN Count(calls', id) = IF DeepEq(heap', value, o.lastValue) THEN 0 ELSE 1

\* C13: a silent dispatch commits the entry a notifying dispatch would commit,
\* invokes no observer callback and leaves every observer's lastValue as it
\* was; the notification pass of the operation that follows it (a set, a
\* remove of a present key or a notifying dispatch on a key, a clear or a
\* reset on all keys) invokes exactly the observers whose selector value on
\* the then-current state is not deep-equal to their lastValue.
C13_SilentDispatch ==
  [][/\ Ended(lastOp', "silentDispatch", "ok") =>
          \A key \in Keys, type \in collActions, payload \in BOOLEAN :
            KeyDispatch(key, type, payload, FALSE) =>
              /\ collStates' = MapSet(collStates, key,
                                  CollActionBody(type, MapGet(collStates, key),
                                                 heap, payload).draft)
              /\ collSubscribers' = collSubscribers
              /\ calls' = <<>>
     /\ Ended(lastOp, "silentDispatch", "ok") =>
          /\ \A key \in Keys :
               ( \/ \E active \in BOOLEAN : Set(key, Entry(key, active))
                 \/ MapHas(collStates, key) /\ Remove(key)
                 \/ /\ Ended(lastOp', "dispatch", "ok")
                    /\ \E type \in collActions, payload \in BOOLEAN :
                         KeyDispatch(key, type, payload, TRUE) )
                 => KeyPassExact(key)
          /\ (MapSize(collStates) > 0 /\ (Clear \/ CollReset))
               => \A key \in Keys : KeyPassExact(key)]_vars

\* C14: dispatch hands its caller the value the action body returned (a plain
\* action) or the value its promise resolved to (an asynchronous action), in
\* the value store as in the collection, and silently as otherwise.
C14_DispatchReturnsResult ==
  [][/\ lastOp'.op \in {"dispatch", "silentDispatch"} /\ lastOp'.outcome = "ok" =>
          \A type \in Actions, n \in BOOLEAN :
            \A payload \in IF type \in TakesPayload THEN Vals ELSE {0} :
              Dispatch(type, payload, n)
                => lastOp'.result = ActionBody(type, states, heap, payload).ret
     /\ Ended(lastOp', "resolve", "ok") =>
          \A p \in BagToSet(pending), v \in Vals :
            Resolve(p, v) => lastOp'.result = ActionResult(p.type, p.draft, v)]_vars

C16_KeySelectorReadsItsEntry ==
  \A id \in Keys, n \in CollSelectorNames, payload \in BOOLEAN :
    getSelector(id, n, payload) =
      IF MapHas(collStates, id)
        THEN NamedSelector(n, MapGet(collStates, id), payload)
        ELSE Undefined

\* C17: key(id).dispatch.a(payload) is the direct dispatch(id, a, payload): a
\* step is one of key(id).dispatch exactly if it is one of the direct
\* dispatch, so both leave the same entry, commit at the same moment
\* relative to the action's completion, invoke the same callbacks and hand
\* back the same result; silently likewise.
C17_KeyDispatchIsDirectDispatch ==
  [][lastOp'.op \in {"dispatch", "silentDispatch"} =>
       \A type \in FacadeActions, payload \in BOOLEAN, n \in BOOLEAN :
         KeyDispatch("a", type, payload, n) <=> DirectDispatch("a", type, payload, n)]_vars

C19_ResetNotifiesOnChange ==
  [][( /\ lastOp'.op = "reset"
       /\ CollReset
       /\ MapSize(initialMap) > 0
       /\ MapKeys(collStates) = MapKeys(initialMap)
       /\ \A i \in 1..Len(collStates) :
            DeepEq(heap, EntryOf(collStates[i].v), EntryOf(initialMap[i].v)) )
     => calls' = <<>>]_vars

\* C20: engine instances are independent: whatever is done on one value
\* store, also dispatches whose actions write into nested objects of their
\* draft, get() on a second store built from the same construction input
\* keeps returning a record deep-equal to that input.
C20_InstancesIndependent ==
  Deref(heap, RecOf(otherGet)) = Deref(PropsHeap, RecOf(PropsStates))

\* ------------------------------------------------------------ isDeepEqual
\* C21: on cycle-free values made of primitives, null, undefined, arrays and
\* plain objects, isDeepEqual answers true exactly when the two values are
\* structurally equal (same kind, same length or key set, equal parts all
\* the way down), and answers true for a value compared with itself.
C21_DeepEqualIsStructural ==
  Ended(lastOp, "isDeepEqual", "ok")
    => /\ lastOp.result = Bool(lastOp.args.a = lastOp.args.b)
       /\ lastOp.args.same => lastOp.result = Bool(TRUE)

\* C21 witness: two separately built {x: [0]} compared equal.
C21_Witness ==
  /\ Ended(lastOp, "isDeepEqual", "ok")
  /\ ~lastOp.args.same
  /\ lastOp.args.a = Obj([x |-> Arr(<<Num(0)>>)])
  /\ lastOp.args.b = Obj([x |-> Arr(<<Num(0)>>)])
  /\ lastOp.result = Bool(TRUE)

\* ------------------------------------------------------ copies and reads
\* C22: copy-on-write in the value store: a dispatch (committing at once, or
\* when its promise resolves, or failing) leaves the record that was current
\* before it, and every value an observer had cached, as they were, also when
\* the action wrote into a nested object of its draft; and a notifying
\* dispatch that changed a field inside sidebar invokes the callback of every
\* observer whose selector is s => s.sidebar.
C22_CopyOnWrite ==
  [][lastOp'.op \in {"dispatch", "silentDispatch", "resolve"} =>
       /\ Deref(heap', RecOf(states)) = Deref(heap, RecOf(states))
       /\ \A id \in DOMAIN subscribers :
            Deref(heap', subscribers[id].lastValue)
              = Deref(heap, subscribers[id].lastValue)
       /\ \A id \in DOMAIN subscribers :
            (/\ lastOp'.outcome = "ok"
             /\ lastOp'.op = "dispatch"
             /\ subscribers[id].selector = "sidebar"
             /\ Deref(heap', RefTo(states'.sidebar)) # Deref(heap, RefTo(states.sidebar)))
              => Count(calls', id) = 1]_vars


\* C23: no torn reads in the value store: what get() returns changes only in
\* a step that commits (a dispatch that completes at once, the resolution of
\* a pending dispatch, a reset), so get() is always deep-equal to the initial
\* state or to a committed one, also while an async action that has written
\* part of its draft is pending.
C23_NoTornReads ==
  [][Deref(heap', RecOf(get')) # Deref(heap, RecOf(get))
       => \/ lastOp'.op \in {"dispatch", "silentDispatch"} /\ lastOp'.outcome = "ok"
          \/ lastOp' = Op("resolve", "ok")
          \/ lastOp' = Op("reset", "ok")]_vars


\* C24: whenever an operation of the collection invokes an observer's
\* callback, the observer's lastValue is by then its selector applied to the
\* source as the operation left it: for an observer of a key the selector
\* value on the key's entry, or undefined when the key is absent; for a size
\* observer the size; for a keys observer the keys.
C24_LastValueIsDelivered ==
  [][calls' # <<>> =>
       /\ \A key \in DOMAIN collSubscribers'.byKey :
            \A id \in DOMAIN collSubscribers'.byKey[key] :
              LET o == collSubscribers'.byKey[key][id]
                  value == IF MapHas(collStates', key)
                             THEN CollSelect(o.selector, MapGet(collStates', key))
                             ELSE Undefined
              IN Count(calls', id) > 0 => DeepEq(heap', o.lastValue, value)
       /\ \A id \in DOMAIN collSubscribers'.size :
            Count(calls', id) > 0
              => collSubscribers'.size[id].lastValue = Num(MapSize(collStates'))
       /\ \A id \in DOMAIN collSubscribers'.keys :
            Count(calls', id) > 0
              => isDeepEqual(collSubscribers'.keys[id].lastValue, KeysValue(collStates'))]_vars


\* C25: within one dispatch the commit comes before the notification pass and
\* the pass before the return: when a notifying dispatch of a plain action
\* has returned, every observer whose selector value on what get() (for the
\* collection, get(key)) now returns is not deep-equal to the lastValue it
\* had has had its callback invoked, once, and was handed that value: the
\* state its callback reads is the state the dispatch committed.
C25_CommitThenNotify ==
  [][Ended(lastOp', "dispatch", "ok") =>
       /\ states' # states =>
            \A id \in DOMAIN subscribers :
              LET value == Select(subscribers[id].selector, get', heap')
              IN ~DeepEq(heap', value, subscribers[id].lastValue)
                   => /\ Count(calls', id) = 1
                      /\ subscribers'[id].lastValue = value
       /\ collStates' # collStates =>
            \A key \in Keys : \A id \in KeyObservers(key) :
              LET o == collSubscribers.byKey[key][id]
                  value == CollSelect(o.selector, MapGet(collStates', key))
              IN (MapHas(collStates', key) /\ ~DeepEq(heap', value, o.lastValue))
                   => /\ Count(calls', id) = 1
                      /\ collSubscribers'.byKey[key][id].lastValue = value]_vars

\* C25 witness: an increment was dispatched while the collection's async
\* action was pending; by its return the observer on s => s.count had been
\* called and holds the count get() returns.
C25_Witness ==
  /\ lastOp = Op("dispatch", "ok")
  /\ BagCardinality(collPending) = 1
  /\ get.count = 1
  /\ 0 \in DOMAIN subscribers
  /\ subscribers[0].lastValue = Num(get.count)
  /\ calls = <<0>>


C27_LastValueAtRegistration ==
  [][/\ Ended(lastOp', "subscribe", "ok") =>
          /\ calls' = <<>>
          /\ \A id \in DOMAIN subscribers' \ DOMAIN subscribers :
               subscribers'[id].lastValue
                 = Select(subscribers'[id].selector, get, heap)
     /\ Ended(lastOp', "resolve", "ok") =>
          \A id \in DOMAIN subscribers :
            Count(calls', id) =
              IF Deref(heap', Select(subscribers[id].selector, get', heap'))
                   = Deref(heap, Select(subscribers[id].selector, get, heap))
                THEN 0 ELSE 1]_vars

\* C27 witness: the observer on s => s.count, registered while fetchCount was
\* pending with count 0, has been called once on the commit of count 1.
C27_Witness ==
  /\ lastOp = Op("resolve", "ok")
  /\ 0 \in DOMAIN subscribers
  /\ subscribers[0].selector = "count"
  /\ subscribers[0].lastValue = Num(1)
  /\ get.count = 1
  /\ calls = <<0>>


\* --------------------------------------------------- collection: frame
\* the operation of the step left the entry of `key` as it was, nested
\* object included, and neither invoked nor changed an observer of `key`
KeyUntouched(key) ==
  /\ MapHas(collStates', key) = MapHas(collStates, key)
  /\ MapHas(collStates, key) =>
       Deref(heap', EntryOf(MapGet(collStates', key)))
         = Deref(heap, EntryOf(MapGet(collStates, key)))
  /\ \A id \in KeyObservers(key) :
       /\ Count(calls', id) = 0
       /\ key \in DOMAIN collSubscribers'.byKey
       /\ id \in DOMAIN collSubscribers'.byKey[key]
       /\ collSubscribers'.byKey[key][id] = collSubscribers.byKey[key][id]

C29_ReadsHaveNoEffect ==
  [][lastOp'.op \in {"get()", "get(selector)", "get(key)", "get(key, selector)",
                     "getSize()", "getKeys()"} =>
       /\ UNCHANGED <<heap, storeVars, collVars>>
       /\ calls' = <<>>
       /\ lastOp'.outcome = "ok"
       /\ lastOp'.op = "get()" => lastOp'.result = RecOf(states)
       /\ lastOp'.op = "get(selector)" =>
            lastOp'.result = Select(lastOp'.args[1], states, heap)
       /\ lastOp'.op \in {"get(key)", "get(key, selector)"} =>
            LET key == lastOp'.args[1]
            IN IF ~MapHas(collStates, key) THEN lastOp'.result = Undefined
               ELSE IF lastOp'.op = "get(key)"
                 THEN lastOp'.result = EntryOf(MapGet(collStates, key))
               ELSE lastOp'.result = CollSelect(lastOp'.args[2], MapGet(collStates, key))
       /\ lastOp'.op = "getSize()" => lastOp'.result = Num(Len(collStates))
       /\ lastOp'.op = "getKeys()" =>
            lastOp'.result = Arr([i \in 1..Len(collStates) |-> Str(collStates[i].k)])]_vars

\* C29 witness: get('a', s => s.active) on a collection from which 'a' was
\* removed returned undefined, an observer of 'a' being registered.
C29_Witness ==
  /\ Ended(lastOp, "get(key, selector)", "ok")
  /\ lastOp.args = <<"a", "active">>
  /\ ~MapHas(collStates, "a")
  /\ MapHas(collStates, "b")
  /\ KeyObservers("a") # {}
  /\ lastOp.result = Undefined


\* ------------------------------------------------- collection: the map
\* getSize() is the number of keys getKeys() returns, the keys are pairwise
\* distinct and get(k) is defined exactly for the keys in getKeys()
MapShape ==
  /\ getSize = Len(getKeys)
  /\ \A i, j \in 1..Len(getKeys) : getKeys[i] = getKeys[j] => i = j
  /\ \A key \in Keys :
       (collGet(key) # Undefined) <=> (\E i \in 1..Len(getKeys) : getKeys[i] = key)

\* C30: in every reachable collection state getSize() equals the number of
\* keys of getKeys(), the keys are pairwise distinct and get(k) is defined
\* exactly for them; getKeys() is in insertion order: set on a present key
\* keeps the key's position, set on an absent key puts it last (so remove
\* followed by set moves the key to the end), and remove takes the key out
\* and keeps the order of the others.
C30_MapInvariants ==
  /\ MapShape
  /\ [][/\ MapShape'
        /\ lastOp'.op = "set" =>
             \A key \in Keys, active \in BOOLEAN :
               Set(key, Entry(key, active)) =>
                 /\ getKeys' = IF MapHas(collStates, key) THEN getKeys
                                                         ELSE Append(getKeys, key)
                 /\ collGet(key)' = EntryOf(Entry(key, active))
        /\ lastOp'.op = "remove" =>
             \A key \in Keys :
               Remove(key) =>
                 /\ getKeys' = SelectSeq(getKeys, LAMBDA k : k # key)
                 /\ collGet(key)' = Undefined]_vars

\* C30 witness: 'a' was removed and set again: it is now listed after 'b'.
C30_Witness ==
  /\ lastOp = Op("set", "ok")
  /\ getKeys = <<"b", "a">>
  /\ getSize = 2
  /\ initialMap # <<>>


\* C31: get(name, payload) on the value store returns
\* selectors[name](current, payload) when the name is registered and fails
\* with an error when it is not; either way the state, the registry and
\* every lastValue stay as they were and no callback is invoked.
C31_NamedSelectorGet ==
  [][lastOp'.op = "get(name, payload)" =>
       /\ UNCHANGED <<heap, storeVars, collVars>>
       /\ calls' = <<>>
       /\ IF lastOp'.args[1] = "isCount"
            THEN /\ lastOp'.outcome = "ok"
                 /\ lastOp'.result = Bool(states.count = lastOp'.args[2])
            ELSE lastOp'.outcome = "error"]_vars

\* C31 witness: get('missing', 1) has failed on a store with an observer and
\* count 1.
C31_Witness ==
  /\ Ended(lastOp, "get(name, payload)", "error")
  /\ lastOp.args = <<"missing", 1>>
  /\ get.count = 1
  /\ DOMAIN subscribers # {}


\* ------------------------------------------------------------------- NaN
\* C32 as stated: isDeepEqual(NaN, NaN) is false, and an observer whose
\* selector yields NaN before and after a notifying dispatch has its callback
\* invoked.
C32_NaNIsChanged ==
  [][/\ (/\ Ended(lastOp', "isDeepEqual", "ok")
         /\ lastOp'.args.a = NaN /\ lastOp'.args.b = NaN)
          => lastOp'.result = Bool(FALSE)
     /\ Ended(lastOp', "dispatch", "ok") =>
          \A id \in DOMAIN subscribers :
            (/\ subscribers[id].lastValue = NaN
             /\ Select(subscribers[id].selector, get', heap') = NaN)
              => Count(calls', id) = 1]_vars

\* C32 amended: isDeepEqual(NaN, NaN) is true (primitives of one type are
\* compared with Object.is, which differs from === on NaN only, +0 and -0
\* being answered equal by the === shortcut before it), and an observer whose
\* selector yields NaN before and after a notifying dispatch is treated as
\* unchanged: its callback is not invoked and its lastValue stays NaN.
C32_NaNIsUnchanged ==
  [][/\ (/\ Ended(lastOp', "isDeepEqual", "ok")
         /\ lastOp'.args.a = NaN /\ lastOp'.args.b = NaN)
          => lastOp'.result = Bool(TRUE)
     /\ Ended(lastOp', "dispatch", "ok") =>
          \A id \in DOMAIN subscribers :
            (/\ subscribers[id].lastValue = NaN
             /\ Select(subscribers[id].selector, get', heap') = NaN)
              => /\ Count(calls', id) = 0
                 /\ subscribers'[id].lastValue = NaN]_vars

\* C32 witness: the observer on s => 0 / s.count, registered with count 0,
\* was not called by a dispatch that left count 0.
C32_Witness ==
  /\ lastOp = Op("dispatch", "ok")
  /\ get.count = 0
  /\ 0 \in DOMAIN subscribers
  /\ subscribers[0].selector = "ratio"
  /\ subscribers[0].lastValue = NaN
  /\ calls = <<>>


\* ------------------------------------------------- isDeepEqual: symmetry
\* a value without the insertion order of its objects' keys
RECURSIVE Plain(_)
Plain(v) ==
  IF v.t = "array" THEN Arr([i \in 1..Len(v.elems) |-> Plain(v.elems[i])])
  ELSE IF v.t = "object" THEN Obj([k \in DOMAIN v.fields |-> Plain(v.fields[k])])
  ELSE v

\* C33: isDeepEqual is symmetric on cycle-free values; it does not depend on
\* the order in which the keys of an object were inserted (two values that
\* differ in nothing but that order are equal) and does depend on the order
\* of array elements; it is false whenever exactly one operand is an array
\* or exactly one operand is null or undefined.
C33_DeepEqualSymmetric ==
  Ended(lastOp, "isDeepEqual", "ok") =>
    LET a == lastOp.args.a
        b == lastOp.args.b
    IN /\ lastOp.result = Bool(isDeepEqual(b, a))
       /\ lastOp.result = Bool(Plain(a) = Plain(b))
       /\ (a.t = "array") # (b.t = "array") => lastOp.result = Bool(FALSE)
       /\ IsNullish(a) # IsNullish(b) => lastOp.result = Bool(FALSE)
       /\ (/\ a.t = "array" /\ b.t = "array" /\ Len(a.elems) = 2
           /\ a.elems[1] # a.elems[2] /\ b.elems = <<a.elems[2], a.elems[1]>>)
            => lastOp.result = Bool(FALSE)

\* C33 witness: {x: 0, y: 1} and {y: 1, x: 0} compared equal.
C33_Witness ==
  /\ Ended(lastOp, "isDeepEqual", "ok")
  /\ lastOp.args.a = OrderedObj(<<"x", "y">>, [x |-> Num(0), y |-> Num(1)])
  /\ lastOp.args.b = OrderedObj(<<"y", "x">>, [x |-> Num(0), y |-> Num(1)])
  /\ lastOp.result = Bool(TRUE)


\* C34: with the devtools bridge connected, the engine sends no message back
\* to the tool while it handles an inbound control message (JUMP_TO_ACTION,
\* JUMP_TO_STATE or RESET); every other committed dispatch or reset sends
\* exactly one message, which carries the state as committed.
C34_BridgeReporting ==
  [][devTools # "null" =>
       /\ lastOp'.op = "message" => sent' = <<>>
       /\ (lastOp'.op \in {DispatchOp(TRUE), DispatchOp(FALSE), "reset"}
             /\ lastOp'.outcome = "ok")
            => Len(sent') = 1 /\ sent'[1].state = states']_vars

\* C35: an inbound jump whose snapshot parses replaces the state by the
\* snapshot and runs a full pass, each observer invoked exactly once if its
\* selector value changed and not otherwise; a jump whose state is missing or
\* does not parse leaves the state and every observer as they were; neither
\* raises an error.
C35_JumpAppliesSnapshot ==
  [][(lastOp'.op = "message" /\ lastOp'.args.payloadType \in JumpTypes) =>
       /\ lastOp'.outcome = "ok"
       /\ IF lastOp'.args.state \in Snapshots
            THEN /\ Deref(heap', RecOf(states')) =
                      Obj([count |-> Num(lastOp'.args.state.count),
                           sidebar |-> Obj([isOpen |-> Bool(lastOp'.args.state.isOpen)])])
                 /\ NotifiedIffChanged
            ELSE /\ Deref(heap', RecOf(states')) = Deref(heap, RecOf(states))
                 /\ subscribers' = subscribers
                 /\ calls' = <<>>]_vars

\* C36: the devtools pause flag is false whenever no inbound jump is being
\* applied, also after a jump during whose notification pass an observer's
\* callback threw, so that later dispatches and resets are reported again.
C36_PauseFlagCleared == pauseDevTools = FALSE


\* C37: once the unsubscribe function of an observer has returned, the
\* observer's callback is never invoked again, also when unsubscribe was
\* called from another observer's callback during a notification pass that
\* had not reached the observer yet.
C37_NoCallAfterUnsubscribe ==
  [][(lastOp'.op = "visit" /\ Len(calls') = Len(calls) + 1)
       => calls'[Len(calls')] \in DOMAIN subscribers]_vars

\* every registered observer's lastValue is deep-equal to its selector
\* applied to the current state
Consistent ==
  \A id \in DOMAIN subscribers :
    DeepEq(heap, subscribers[id].lastValue,
           Select(subscribers[id].selector, states, heap))

\* C38: when no notification pass is running (every commit having been made
\* by a notifying dispatch or by reset), the lastValue of every registered
\* observer is deep-equal to its selector applied to the current state, also
\* when callbacks dispatch, subscribe or unsubscribe during a pass; and the
\* values of two successive invocations of one observer's callback are never
\* deep-equal.
C38_QuiescentConsistency ==
  /\ passes.frames = <<>> => Consistent
  /\ [][/\ passes'.frames = <<>> => Consistent'
        /\ (lastOp'.op = "visit" /\ Len(calls') = Len(calls) + 1) =>
             LET id == calls'[Len(calls')]
             IN id \in DOMAIN passes.seen
                  => ~isDeepEqual(passes'.seen[id], passes.seen[id])]_vars

\* C38 witness: no pass is running, two observers are registered and
\* consistent, and the latest dispatch invoked observer 0 twice, the second
\* time in the pass of a dispatch made by a callback.
C38_Witness ==
  /\ passes.frames = <<>>
  /\ lastOp = Op("notify", "ok")
  /\ DOMAIN subscribers = {0, 1}
  /\ Count(calls, 0) = 2
  /\ Consistent

====
